---------------------------- MODULE Spec2Model ----------------------------
(***************************************************************************)
(* A model of the comm library (TamaGO89/comm): one channel object, either *)
(* a Serial or an Ether, the operating system it talks to, and a single    *)
(* caller.                                                                 *)
(*                                                                         *)
(*   Spec    the life cycle: construction, open, close, the setters, the   *)
(*           flushes and the entry of the read/send family.  Every public  *)
(*           operation is one action; the operating system's answers are   *)
(*           the action's inputs.                                          *)
(*   SpecIO  the transfer loops of read_ and send_ step by step, against a *)
(*           clock and an operating system that may answer short,          *)
(*           interrupt or refuse.                                          *)
(*   SpecLine    readline, readlines and setEOL on a stream of bytes.      *)
(*   SpecLoop    send_ and read_ on the two ends of a loopback.            *)
(*   SpecThreads several threads calling the public methods: the two       *)
(*           mutexes, the stores to shared fields, the bytes consumed.     *)
(*   SpecTime    to_timeval over its whole range.                          *)
(***************************************************************************)
EXTENDS Integers, Sequences, FiniteSets, TLC

VARIABLES
    phase,          \* "none": not constructed, "live", "gone": constructor threw,
                    \* "dead": destroyed, "terminated": the destructor threw
    kind,           \* "serial" | "ether": the class of the object
    address_, port_, baudrate_,
    is_open_, is_connected_, fd_,
    timeout_, settings_,
    os_fds,         \* descriptors the operating system holds open for the channel
    op,             \* the public operation that just returned, "none" once the caller went on
    arg,            \* the size that operation was called with (0 when it takes none)
    closes,         \* how many of the last calls in a row were close(), up to 2
    log,            \* driver steps, OS calls and flag writes of that operation, in order
    err,            \* the exception that operation raised, or "none"
    pre,            \* is_open_, is_connected_ and fd_ when that operation was called
    kept,           \* the operation left every field and the OS's descriptors as they were
    pc,             \* where the caller is in read_: "idle", "loop", "wait", "read", "done",
                    \* or in send_: "sloop", "swait", "write", "sent", "blocked"
    size,           \* the size read_ was called with
    bytes_read, bytes_read_now, errno_,
    bytes_sent, bytes_sent_now,   \* send_'s locals; size_t values are kept as the
                    \* integer congruent to them modulo 2^64 that is nearest to 0
    timecheck,      \* the TimeCheck of the transfer: its timeout field
    clock,          \* CLOCK_MONOTONIC, in ticks
    os_total,       \* the bytes the OS handed over in this transfer, all calls together
    ret,            \* the value read_ returned
    attempted,      \* the transfer has made a low-level read or write call
    raised,         \* the exception read_ threw, or "none"
    eol_,           \* the end-of-line marker, a sequence of bytes
    eol_len_,       \* the length of the marker, as the object keeps it
    stream,         \* the bytes the peer delivers to the running readline / readlines
    lpc,            \* where the caller is in the line reader: "idle", "readline", "readlines", "done"
    line_size,      \* the size readline / readlines was called with
    read_so_far, start_of_line,
    lines,          \* readlines' result so far; each line with whether the loop split it off
    line,           \* what readline appended to the caller's buffer
    line_raised,    \* the exception that left the line reader, or "none"
    line_end,       \* why the line reader's loop ended: "eol", "timeout", "size", "raised"
    tx,             \* loopback: the bytes given to send on one end
    wire,           \* loopback: the bytes written and not yet read, in order
    rx,             \* loopback: the buffer given to read on the other end
    wpc, rpc,       \* loopback: where the sender and the reader are
    sent, got,      \* loopback: what send and read returned
    mtx_read, mtx_send,  \* the thread that holds each mutex, 0 when it is free
    threads,        \* per thread: the public method it is in, where it is in it, how
                    \* many of the method's lock_guards it has constructed and how
                    \* many steps of its body it has made
    taken,          \* the bytes of the incoming stream the running calls consumed, in
                    \* stream order: the thread that got each, 0 once its call returned
    last_write,     \* the field the last step stored to, if any, and the mutexes the
                    \* storing thread held
    given,          \* the time given to to_timeval: its floor, as two 16-bit halves of
                    \* a 64-bit integer, and the rest in tenths of a microsecond
    time            \* what to_timeval made of it, or NoTime before the call

chanVars == <<phase, kind, address_, port_, baudrate_, is_open_, is_connected_, fd_,
              timeout_, settings_, os_fds, op, arg, closes, log, err, pre, kept>>
ioVars   == <<pc, size, bytes_read, bytes_read_now, errno_, timecheck, clock, os_total,
             ret, raised, bytes_sent, bytes_sent_now, attempted>>
sendLocals == <<bytes_sent, bytes_sent_now>>
lineLocals == <<stream, lpc, line_size, read_so_far, start_of_line, lines, line,
                line_raised, line_end>>
lineVars == <<eol_, eol_len_, lineLocals>>
loopVars == <<tx, wire, rx, wpc, rpc, sent, got>>
thrVars  == <<mtx_read, mtx_send, threads, taken, last_write>>
timeVars == <<given, time>>
otherVars == <<lineVars, loopVars, thrVars, timeVars>>
vars     == <<chanVars, ioVars, otherVars>>

---------------------------------------------------------------------------
(* Bounds and input sets *)

MaxPort == 1
MaxEintr == 1

Addresses == {"", "a", "x"}
Ports     == 0..MaxPort
Bauds     == {9600, 19200}

(* inet_pton: "x" stands for a text that is no IPv4 address *)
inet_pton(address) == address # "x"

---------------------------------------------------------------------------
(* utils.h / utils.cc : values *)

UsecPerSec == 1000000

(* sec64 > std::numeric_limits<uint32_t>::max(), that is sec64 >= 2^32,     *)
(* written with numbers the model checker can hold                          *)
above_uint32(sec64) == sec64 \div 65536 > 65535

(* to_timeval (utils.cc:22), for a time given in whole microseconds *)
to_timeval(us) ==
    LET sec64 == us \div UsecPerSec
        usec  == us - sec64 * UsecPerSec
    IN  IF sec64 < 0 \/ above_uint32(sec64)
        THEN [ok |-> FALSE, tv_sec |-> 0, tv_usec |-> 0]
        ELSE [ok |-> TRUE,
              tv_sec  |-> sec64 + usec \div UsecPerSec,
              tv_usec |-> usec % UsecPerSec]

tv(us) == [tv_sec |-> to_timeval(us).tv_sec, tv_usec |-> to_timeval(us).tv_usec]

(* struct Timeout: four timevals built from four times *)
Timeout(read, send, byte, conn) ==
    [read |-> tv(read), send |-> tv(send), byte |-> tv(byte), conn |-> tv(conn)]

TimeoutInputs == { Timeout(0, 0, 0, 0), Timeout(1000000, 1000000, 0, 500000) }

(* struct Settings and its enumerations (utils.h) *)
Settings(bytesize, parity, stopbits, flowcontrol) ==
    [bytesize |-> bytesize, parity |-> parity, stopbits |-> stopbits,
     flowcontrol |-> flowcontrol]

SettingsInputs == { Settings(8, 0, 1, 0), Settings(7, 2, 3, 0) }

(* get_bytetime, in microseconds rounded as to_timeval rounds:             *)
(*   (1 + bytesize + parity + (stopbits == HALFONE ? 1.5 : stopbits)) / baudrate *)
get_bytetime(baudrate, settings) ==
    LET halfbits == 2 * (1 + settings.bytesize + settings.parity)
                    + (IF settings.stopbits = 3 THEN 3 ELSE 2 * settings.stopbits)
    IN  (halfbits * UsecPerSec + baudrate) \div (2 * baudrate)


---------------------------------------------------------------------------
(* The operating system *)

(* Descriptors 0..2 are the process's standard streams: open, but never    *)
(* acquired by the channel.                                                *)
Stdio == {0, 1, 2}

(* Comm::fd_ has no initialiser (comm.h:236) and no constructor writes it: *)
(* after construction it holds an indeterminate value, which may be -1 or  *)
(* the number of a descriptor that is open in the process.                 *)
UninitFd == {-1, 0}

(* What the OS answers during one public operation.  A driver stops at the *)
(* first call that fails, so one failing call per operation is enough:     *)
(*   fail        the OS call that fails, or "none"                         *)
(*   eintr       how many times ::open / socket is interrupted first       *)
(*   inprogress  ::connect answers EINPROGRESS and select is consulted     *)
(*   keeps_fd    a failing ::close leaves the descriptor open (POSIX       *)
(*               leaves this unspecified; Linux releases it)               *)
(*   zeroes_tv   select overwrites its timeout argument with the time left *)
FailPoints == {"none", "::open", "::close", "::tcgetattr", "::fcntl", "::connect",
               "::select", "::fcntl#2", "::setsockopt", "::getsockopt", "SO_ERROR",
               "::read", "::write"}

OsAnswers == [fail : FailPoints, eintr : 0..MaxEintr, inprogress : BOOLEAN,
              keeps_fd : BOOLEAN, zeroes_tv : BOOLEAN]

(* The answers that differ in what an operation making these calls can see: *)
(* select is only called after EINPROGRESS, and only a select that was      *)
(* called can rewrite its argument.                                         *)
Os(fails, eintrs, inprogresses, keeps, zeroes) ==
    { o \in OsAnswers : /\ o.fail \in fails /\ o.eintr \in eintrs
                        /\ o.inprogress \in inprogresses
                        /\ o.keeps_fd \in keeps /\ o.zeroes_tv \in zeroes
                        /\ o.fail = "::select" => o.inprogress }

OsSerialOpen == Os({"none", "::open", "::tcgetattr"}, 0..MaxEintr, {FALSE}, {FALSE}, {FALSE})
OsEtherOpen  == Os({"none", "::open", "::fcntl", "::connect"},
                   0..MaxEintr, {FALSE}, {FALSE}, {FALSE})
                \cup Os({"none", "::select", "::fcntl#2", "::setsockopt", "::getsockopt",
                         "SO_ERROR"}, {0}, {TRUE}, {FALSE}, BOOLEAN)
OsNone       == Os({"none"}, {0}, {FALSE}, {FALSE}, {FALSE})
OsOpen(k)    == IF k = "serial" THEN OsSerialOpen ELSE OsEtherOpen
OsClose      == Os({"none"}, {0}, {FALSE}, {FALSE}, {FALSE})
                \cup Os({"::close"}, {0}, {FALSE}, BOOLEAN, {FALSE})
OsReopen     == OsClose \cup Os({"none", "::open"}, 0..MaxEintr, {FALSE}, {FALSE}, {FALSE})
OsConfigure(k) == IF k = "serial"
                  THEN Os({"none", "::tcgetattr"}, {0}, {FALSE}, {FALSE}, {FALSE})
                  ELSE Os({"none", "::setsockopt", "::getsockopt", "SO_ERROR"},
                          {0}, {FALSE}, {FALSE}, {FALSE})
OsTransfer(call) == Os({"none", call}, {0}, {FALSE}, {FALSE}, BOOLEAN)

(* The answers an operation can tell apart when it makes its OS calls only  *)
(* on a channel for which `calls` holds                                     *)
OsWhen(calls, answers) == IF calls THEN answers ELSE OsNone

(* The descriptor the OS hands out: the lowest one that is free *)
NewFd(s) == CHOOSE n \in 3..(3 + Cardinality(s.os_fds)) :
                /\ n \notin s.os_fds
                /\ \A m \in 3..(n - 1) : m \in s.os_fds

(* A call on a descriptor that is not open fails with EBADF whatever else *)
BadFd(s) == s.fd_ \notin (s.os_fds \cup Stdio)

---------------------------------------------------------------------------
(* The channel as a value: the object's fields, the OS's descriptors, and  *)
(* the record of the operation in progress.                                *)

Chan == [kind |-> kind, address_ |-> address_, port_ |-> port_, baudrate_ |-> baudrate_,
         is_open_ |-> is_open_, is_connected_ |-> is_connected_, fd_ |-> fd_,
         timeout_ |-> timeout_, settings_ |-> settings_, os_fds |-> os_fds,
         log |-> <<>>, err |-> "none"]

Ev(s, e)    == [s EXCEPT !.log = Append(@, e)]
Throw(s, e) == [s EXCEPT !.err = e]
Ok(s)       == s.err = "none"

(* Comm::close_ (comm.cc:307) *)
close_(s, o) ==
    LET s0 == Ev(s, "close_") IN
    IF ~s0.is_open_ THEN s0
    ELSE IF s0.fd_ = -1
         THEN [s0 EXCEPT !.is_connected_ = FALSE, !.is_open_ = FALSE]
         ELSE LET s1 == Ev(s0, "::close") IN
              IF BadFd(s1) THEN Throw(s1, "IOException")
              ELSE IF o.fail = "::close"
                   THEN Throw([s1 EXCEPT !.os_fds = IF o.keeps_fd THEN @ ELSE @ \ {s1.fd_}],
                              "IOException")
                   ELSE [s1 EXCEPT !.os_fds = @ \ {s1.fd_}, !.fd_ = -1,
                                   !.is_connected_ = FALSE, !.is_open_ = FALSE]

(* The body shared by Serial::open_ (part_001:98) and Ether::open_          *)
(* (utils.cc:351): acquire a descriptor, again after each EINTR.            *)
RECURSIVE acquire(_, _, _)
acquire(s, o, eintr) ==
    LET s1 == Ev(s, "::open") IN
    IF eintr > 0 THEN acquire([s1 EXCEPT !.fd_ = -1], o, eintr - 1)
    ELSE IF o.fail = "::open"
         THEN Throw([s1 EXCEPT !.fd_ = -1], "IOException")
         ELSE Ev([s1 EXCEPT !.fd_ = NewFd(s1), !.os_fds = @ \cup {NewFd(s1)},
                            !.is_open_ = TRUE], "is_open_")

(* A faulty open_ that acquires a handle even when the channel is open:     *)
(* the open() properties must tell it from Ether::open_.                    *)
Ether_open_unguarded(s, o) == acquire(Ev(s, "open_"), o, o.eintr)

(* Serial::open_ (part_001:95) *)
Serial_open_(s, o) ==
    LET s0 == Ev(s, "open_") IN
    IF s0.is_open_ \/ s0.address_ = "" THEN s0 ELSE acquire(s0, o, o.eintr)

(* Ether::open_ (utils.cc:348) *)
Ether_open_(s, o) ==
    LET s0 == Ev(s, "open_") IN
    IF s0.is_open_ THEN s0 ELSE acquire(s0, o, o.eintr)

(* Serial::setOptions_ (part_001:120).  The result of tcsetattr is not read. *)
Serial_setOptions_(s, o) ==
    LET s1 == Ev(Ev(s, "setOptions_"), "::tcgetattr") IN
    IF BadFd(s1) \/ o.fail = "::tcgetattr" THEN Throw(s1, "IOException")
    ELSE [Ev(s1, "::tcsetattr") EXCEPT
              !.timeout_.byte = tv(get_bytetime(s1.baudrate_, s1.settings_))]

(* Ether::setOptions_ (utils.cc:394).  A descriptor that is no socket       *)
(* (ENOTSOCK) fails like one that is not open.                              *)
Ether_setOptions_(s, o) ==
    LET s1 == Ev(Ev(s, "setOptions_"), "::setsockopt") IN
    IF s1.fd_ \notin s1.os_fds \/ o.fail = "::setsockopt"
    THEN Throw(s1, "InterfaceException")
    ELSE LET s2 == Ev(Ev(s1, "::setsockopt"), "::getsockopt") IN
         IF o.fail \in {"::getsockopt", "SO_ERROR"}
         THEN Throw(s2, "InterfaceException")
         ELSE s2

(* A faulty connect_ that raises is_connected_ before it configures the     *)
(* line: the ordering property of open() must tell it from Serial::connect_ *)
Serial_connect_flag_first(s, o) ==
    LET s0 == Ev(s, "connect_") IN
    IF s0.is_connected_ THEN s0
    ELSE Serial_setOptions_(Ev([s0 EXCEPT !.is_connected_ = TRUE], "is_connected_"), o)

(* Serial::connect_ (part_001:112) *)
Serial_connect_(s, o) ==
    LET s0 == Ev(s, "connect_") IN
    IF s0.is_connected_ THEN s0
    ELSE LET s1 == Serial_setOptions_(s0, o) IN
         IF Ok(s1) THEN Ev([s1 EXCEPT !.is_connected_ = TRUE], "is_connected_") ELSE s1

(* set_options ( fd, get_options(fd) ... ) (utils.cc:238, 246); `call` names *)
(* which of the two uses in Ether::connect_ this is                         *)
fcntl_(s, o, call) ==
    LET s1 == Ev(s, "::fcntl") IN
    IF s1.fd_ \notin s1.os_fds \/ o.fail = call THEN Throw(s1, "IOException") ELSE s1

(* The connection attempt of Ether::connect_ (utils.cc:373..385) *)
os_connect(s, o) ==
    LET s1 == Ev(s, "::connect") IN
    IF o.fail = "::connect" THEN Throw(s1, "InterfaceException")
    ELSE IF ~o.inprogress THEN s1
    ELSE LET s2 == [Ev(s1, "::select") EXCEPT
                       !.timeout_.conn = IF o.zeroes_tv THEN tv(0) ELSE @] IN
         IF o.fail = "::select" THEN Throw(s2, "InterfaceException") ELSE s2

(* A faulty connect_ that raises is_connected_ as soon as the connection    *)
(* attempt returned, before the socket is configured and its pending error  *)
(* is read                                                                  *)
Ether_connect_flag_first(s, o) ==
    LET s0 == Ev(s, "connect_") IN
    IF s0.is_connected_ \/ s0.address_ = "" \/ s0.port_ = 0 THEN s0
    ELSE LET s1 == Ev(s0, "inet_pton") IN
         IF ~inet_pton(s1.address_) THEN Throw(s1, "InterfaceException")
         ELSE LET s2 == fcntl_(s1, o, "::fcntl") IN
              IF ~Ok(s2) THEN s2
              ELSE LET s3 == os_connect(s2, o) IN
                   IF ~Ok(s3) THEN s3
                   ELSE LET s4 == fcntl_(Ev([s3 EXCEPT !.is_connected_ = TRUE],
                                            "is_connected_"), o, "::fcntl#2") IN
                        IF ~Ok(s4) THEN s4 ELSE Ether_setOptions_(s4, o)

(* Ether::connect_ (utils.cc:365) *)
Ether_connect_(s, o) ==
    LET s0 == Ev(s, "connect_") IN
    IF s0.is_connected_ \/ s0.address_ = "" \/ s0.port_ = 0 THEN s0
    ELSE LET s1 == Ev(s0, "inet_pton") IN
         IF ~inet_pton(s1.address_) THEN Throw(s1, "InterfaceException")
         ELSE LET s2 == fcntl_(s1, o, "::fcntl") IN
              IF ~Ok(s2) THEN s2
              ELSE LET s3 == os_connect(s2, o) IN
                   IF ~Ok(s3) THEN s3
                   ELSE LET s4 == fcntl_(s3, o, "::fcntl#2") IN
                        IF ~Ok(s4) THEN s4
                        ELSE LET s5 == Ether_setOptions_(s4, o) IN
                             IF Ok(s5)
                             THEN Ev([s5 EXCEPT !.is_connected_ = TRUE], "is_connected_")
                             ELSE s5

(* Virtual dispatch on the class of the object *)
open_(s, o)       == IF s.kind = "serial" THEN Serial_open_(s, o) ELSE Ether_open_(s, o)
connect_(s, o)    == IF s.kind = "serial" THEN Serial_connect_(s, o) ELSE Ether_connect_(s, o)
setOptions_(s, o) == IF s.kind = "serial" THEN Serial_setOptions_(s, o)
                                          ELSE Ether_setOptions_(s, o)


---------------------------------------------------------------------------
(* The public operations of Comm (comm.cc), as functions of the channel    *)
(* and of the OS's answers.  The caller is alone: both mutexes are free at *)
(* each call and free again at each return.                                *)

(* Comm::open (comm.cc:33) *)
open(s, o) ==
    LET s1 == open_(s, o) IN
    IF Ok(s1) THEN connect_(s1, o) ELSE s1

(* Comm::close (comm.cc:42) *)
close(s, o) == close_(s, o)

(* if ( this->is_connected_ ) { this->close_(); this->open_(); }           *)
(* (comm.cc:230, 241, 252)                                                 *)
reopen(s, o) ==
    IF ~s.is_connected_ THEN s
    ELSE LET s1 == close_(s, o) IN
         IF Ok(s1) THEN open_(s1, o) ELSE s1

(* Comm::setAddress (comm.cc:225) *)
setAddress(s, address, o) ==
    IF s.address_ = address THEN s
    ELSE reopen([s EXCEPT !.address_ = address], o)

(* Comm::setPort (comm.cc:236) *)
setPort(s, port, o) ==
    IF s.port_ = port THEN s
    ELSE reopen([s EXCEPT !.port_ = port], o)

(* Comm::setBaudrate (comm.cc:247) *)
setBaudrate(s, baudrate, o) ==
    IF s.baudrate_ = baudrate THEN s
    ELSE reopen([s EXCEPT !.baudrate_ = baudrate], o)

(* Comm::setTimeout (comm.cc:265, 272) *)
setTimeout(s, timeout, o) == setOptions_([s EXCEPT !.timeout_ = timeout], o)

(* Comm::setSettings (comm.cc:282, 288) *)
setSettings(s, settings, o) == setOptions_([s EXCEPT !.settings_ = settings], o)

(* Comm::flush, flushInput, flushOutput (comm.cc:51..71) with              *)
(* Serial::flush_ ... (part_001:138..140) and Comm::flush_ ... (comm.cc:374) *)
flush(s, which) ==
    IF s.kind = "serial" /\ s.is_open_ /\ s.is_connected_
    THEN Ev(s, IF which = "flush" THEN "::tcdrain" ELSE "::tcflush")
    ELSE s

(* The test every read_ and send_ starts with (part_001:32, 66; utils.cc:294, 322) *)
connected(s) == s.is_open_ /\ s.is_connected_

(* A faulty transfer that tests the connection only after the OS call: the  *)
(* not-connected property must tell it from read_ and send_.                *)
transfer_unchecked(s, call, o) ==
    LET s1 == Ev(s, call) IN
    IF ~(s.is_open_ /\ s.is_connected_) THEN Throw(s1, "ConnectionException") ELSE s1

(* A faulty transfer that closes the channel when it presumes the peer      *)
(* disconnected                                                             *)
transfer_closing(s, call, o) ==
    IF ~connected(s) THEN Throw(s, "ConnectionException")
    ELSE LET s1 == Ev(s, call) IN
         IF o.fail = call
         THEN Throw(close_(s1, [o EXCEPT !.fail = "none"]), "InterfaceException")
         ELSE s1

(* One read_ or send_ as the channel's fields see it: the test, then the   *)
(* transfer, which reads or writes through fd_ and waits with select on     *)
(* &timeout_.conn (comm.cc:334, 357), and which may end in an exception.    *)
(* SpecIO follows the loop itself.                                          *)
transfer(s, call, o) ==
    IF ~connected(s) THEN Throw(s, "ConnectionException")
    ELSE LET s1 == IF o.zeroes_tv
                   THEN [Ev(s, "::select") EXCEPT !.timeout_.conn = tv(0)]
                   ELSE s
             s2 == Ev(s1, call)
         IN  IF o.fail = call THEN Throw(s2, "InterfaceException") ELSE s2

(* Comm::read (comm.cc:99..136) *)
read(s, n, o) == transfer(s, "::read", o)

(* Comm::readline (comm.cc:141) and Comm::readlines (comm.cc:168): one     *)
(* read_ of a single byte per turn of a loop that runs while fewer than n   *)
(* bytes were read                                                          *)
readline(s, n, o) == IF 0 < n THEN transfer(s, "::read", o) ELSE s

readlines(s, n, o) == IF 0 < n THEN transfer(s, "::read", o) ELSE s

(* Comm::send (comm.cc:200..219) *)
send(s, n, o) == transfer(s, "::write", o)


---------------------------------------------------------------------------
(* The life cycle: one action per public operation *)

MaxSize == 2
Sizes == 0..MaxSize

Idle == "idle"

NoPre == [is_open_ |-> FALSE, is_connected_ |-> FALSE, fd_ |-> -1]

(* The fields of the object and the OS's descriptors, without the record of *)
(* the operation                                                            *)
Fields(s) == [s EXCEPT !.log = <<>>, !.err = "none"]

(* The caller's view after an operation that took the channel from the      *)
(* value s0 to the value s                                                  *)
Commit(name, n, s0, s) ==
    /\ op' = name /\ arg' = n
    /\ closes' = IF name # "close" THEN 0 ELSE IF closes < 2 THEN closes + 1 ELSE 2
    /\ pre' = [is_open_ |-> s0.is_open_, is_connected_ |-> s0.is_connected_,
               fd_ |-> s0.fd_]
    /\ kept' = (Fields(s) = Fields(s0))
    /\ address_' = s.address_ /\ port_' = s.port_ /\ baudrate_' = s.baudrate_
    /\ is_open_' = s.is_open_ /\ is_connected_' = s.is_connected_ /\ fd_' = s.fd_
    /\ timeout_' = s.timeout_ /\ settings_' = s.settings_ /\ os_fds' = s.os_fds
    /\ log' = s.log /\ err' = s.err
    /\ UNCHANGED <<ioVars, otherVars>>

Call(name, s) == Commit(name, 0, Chan, s) /\ UNCHANGED <<phase, kind>>

CallN(name, n, s) == Commit(name, n, Chan, s) /\ UNCHANGED <<phase, kind>>

(* The fields as Comm::Comm (comm.cc:23) and the member initialisers       *)
(* (comm.h:229, 230) leave them.  port_, baudrate_ and fd_ are written by   *)
(* no initialiser: the derived constructor writes one of the first two,     *)
(* the other and fd_ keep an indeterminate value.                           *)
Comm(k, address, port, baudrate, timeout, settings, fd0) ==
    [kind |-> k, address_ |-> address, port_ |-> port, baudrate_ |-> baudrate,
     is_open_ |-> FALSE, is_connected_ |-> FALSE, fd_ |-> fd0,
     timeout_ |-> timeout, settings_ |-> settings, os_fds |-> {},
     log |-> <<>>, err |-> "none"]

(* Serial::Serial (part_001:22) and Ether::Ether (utils.cc:285): the base  *)
(* constructor, then open().  When open() throws, the constructor throws,   *)
(* ~Comm (comm.cc:26) runs close_ on the base and there is no object.       *)
Construct ==
    /\ phase = "none"
    /\ \E k \in {"serial", "ether"}, address \in Addresses, port \in Ports,
          baudrate \in Bauds, timeout \in TimeoutInputs, fd0 \in UninitFd :
          \E o \in OsOpen(k),
             settings \in IF k = "serial" THEN SettingsInputs ELSE {Settings(8, 0, 1, 0)} :
             LET s0 == Comm(k, address, port, baudrate, timeout, settings, fd0)
                 s1 == open(s0, o)
                 s2 == IF Ok(s1) THEN s1
                       ELSE [close_(s1, [o EXCEPT !.fail = "none"]) EXCEPT !.err = s1.err]
             IN  /\ kind' = k
                 /\ phase' = IF Ok(s1) THEN "live" ELSE "gone"
                 /\ Commit("construct", 0, s0, s2)

Open == /\ phase = "live" /\ op = "none"
        /\ \E o \in OsOpen(kind) : Call("open", open(Chan, o))

Close == /\ phase = "live" /\ op = "none"
         /\ \E o \in OsWhen(is_open_, OsClose) : Call("close", close(Chan, o))

SetAddress == /\ phase = "live" /\ op = "none"
              /\ \E address \in Addresses, o \in OsWhen(is_connected_, OsReopen) :
                    Call("setAddress", setAddress(Chan, address, o))

SetPort == /\ phase = "live" /\ op = "none"
           /\ \E port \in Ports, o \in OsWhen(is_connected_, OsReopen) :
                  Call("setPort", setPort(Chan, port, o))

SetBaudrate == /\ phase = "live" /\ op = "none"
               /\ \E baudrate \in Bauds, o \in OsWhen(is_connected_, OsReopen) :
                     Call("setBaudrate", setBaudrate(Chan, baudrate, o))

SetTimeout == /\ phase = "live" /\ op = "none"
              /\ \E timeout \in TimeoutInputs, o \in OsConfigure(kind) :
                    Call("setTimeout", setTimeout(Chan, timeout, o))

SetSettings == /\ phase = "live" /\ op = "none"
               /\ \E settings \in SettingsInputs, o \in OsConfigure(kind) :
                     Call("setSettings", setSettings(Chan, settings, o))

Flush == /\ phase = "live" /\ op = "none"
         /\ \E which \in {"flush", "flushInput", "flushOutput"} :
               Call("flush", flush(Chan, which))

Read == /\ phase = "live" /\ op = "none"
        /\ \E n \in {0, MaxSize}, o \in OsWhen(connected(Chan), OsTransfer("::read")) :
              CallN("read", n, read(Chan, n, o))

ReadLine == /\ phase = "live" /\ op = "none"
            /\ \E n \in {0, MaxSize}, o \in OsWhen(connected(Chan), OsTransfer("::read")) :
                  CallN("readline", n, readline(Chan, n, o))

ReadLines == /\ phase = "live" /\ op = "none"
             /\ \E n \in {0, MaxSize}, o \in OsWhen(connected(Chan), OsTransfer("::read")) :
                   CallN("readlines", n, readlines(Chan, n, o))

Send == /\ phase = "live" /\ op = "none"
        /\ \E n \in {0, MaxSize}, o \in OsWhen(connected(Chan), OsTransfer("::write")) :
              CallN("send", n, send(Chan, n, o))

(* The caller takes the result of the operation and goes on *)
Return ==
    /\ phase = "live" /\ op # "none"
    /\ op' = "none" /\ arg' = 0 /\ log' = <<>> /\ err' = "none" /\ pre' = NoPre /\ kept' = TRUE
    /\ UNCHANGED <<phase, kind, address_, port_, baudrate_, is_open_, is_connected_, fd_,
                   timeout_, settings_, os_fds, closes>>
    /\ UNCHANGED <<ioVars, otherVars>>

(* Comm::~Comm (comm.cc:26): both lock_guards, then close_(); ~Serial and   *)
(* ~Ether are defaulted (serial.h:79, ether.h:74) and add nothing.  A       *)
(* destructor is noexcept: when close_ throws, std::terminate ends the      *)
(* process, and the OS closes the descriptors the process held.             *)
Destroy ==
    /\ phase = "live" /\ op = "none"
    /\ \E o \in OsWhen(is_open_, OsClose) :
          LET s1 == close_(Chan, o)
              s2 == IF Ok(s1) THEN s1 ELSE [s1 EXCEPT !.os_fds = {}]
          IN  /\ phase' = IF Ok(s1) THEN "dead" ELSE "terminated"
              /\ kind' = kind
              /\ Commit("destroy", 0, Chan, s2)

NoTimeCheck == [tv_sec |-> 0, tv_nsec |-> 0]

(* Thread identities; the life cycle, the transfer loops and the line       *)
(* reader above follow a single caller                                      *)
MaxThreads == 3
Threads == 1..MaxThreads

NoCall == [op |-> "none", at |-> "out", guards |-> 0, step |-> 0, eol |-> <<>>]

NoWrite == [field |-> "none", held |-> {}]

(* No thread inside a public method, both mutexes free *)
ThreadsIdle ==
    /\ mtx_read = 0 /\ mtx_send = 0 /\ threads = [t \in Threads |-> NoCall]
    /\ taken = <<>> /\ last_write = NoWrite

(* No to_timeval call made *)
NoTime == [ok |-> TRUE, tv_sec |-> [hi |-> 0, lo |-> 0], tv_usec |-> -1]
Zero == [sec |-> [hi |-> 0, lo |-> 0], frac |-> 0]
TimeIdle == given = Zero /\ time = NoTime

(* No loopback transfer in progress *)
LoopIdle ==
    /\ tx = <<>> /\ wire = <<>> /\ rx = <<>> /\ wpc = Idle /\ rpc = Idle /\ sent = 0 /\ got = 0

(* No readline or readlines in progress *)
LineIdle ==
    /\ stream = <<>> /\ lpc = Idle /\ line_size = 0 /\ read_so_far = 0 /\ start_of_line = 0
    /\ lines = <<>> /\ line = <<>> /\ line_raised = "none" /\ line_end = "none"

IoIdle ==
    /\ pc = Idle /\ size = 0 /\ bytes_read = 0 /\ bytes_read_now = 0 /\ errno_ = "none"
    /\ timecheck = NoTimeCheck /\ os_total = 0 /\ ret = 0 /\ raised = "none"
    /\ bytes_sent = 0 /\ bytes_sent_now = 0 /\ attempted = FALSE

Init ==
    /\ phase = "none" /\ kind = "serial"
    /\ address_ = "" /\ port_ = 0 /\ baudrate_ = 9600
    /\ is_open_ = FALSE /\ is_connected_ = FALSE /\ fd_ = -1
    /\ timeout_ = Timeout(0, 0, 0, 0) /\ settings_ = Settings(8, 0, 1, 0)
    /\ os_fds = {}
    /\ op = "none" /\ arg = 0 /\ closes = 0 /\ log = <<>> /\ err = "none"
    /\ pre = NoPre /\ kept = TRUE
    /\ IoIdle /\ clock = 0
    /\ eol_ = <<"\n">> /\ eol_len_ = Len(eol_)
    /\ LineIdle /\ LoopIdle /\ ThreadsIdle /\ TimeIdle

Next ==
    \/ Construct
    \/ Open \/ Close
    \/ SetAddress \/ SetPort \/ SetBaudrate \/ SetTimeout \/ SetSettings
    \/ Flush
    \/ Read \/ ReadLine \/ ReadLines \/ Send
    \/ Return
    \/ Destroy

Spec == Init /\ [][Next]_vars


---------------------------------------------------------------------------
(* The transfer loop of read_: Serial::read_ (part_001:29) and             *)
(* Ether::read_ (utils.cc:292), which differ only in the OS call they make  *)
(* (::read on a non-blocking descriptor, ::recv with MSG_DONTWAIT).         *)

MaxClock == 5
TicksPerSec == 2

NsecPerSec == 1000 * UsecPerSec

(* clock_gettime ( CLOCK_MONOTONIC, ... ) *)
clock_gettime == [tv_sec  |-> clock \div TicksPerSec,
                  tv_nsec |-> (clock % TicksPerSec) * (NsecPerSec \div TicksPerSec)]

(* TimeCheck::TimeCheck (utils.h:121) *)
TimeCheck(timeout, byte, n) ==
    [tv_sec  |-> timeout.tv_sec + byte.tv_sec * n * 2 + clock_gettime.tv_sec,
     tv_nsec |-> (timeout.tv_usec + byte.tv_usec * n * 2) * 1000 + clock_gettime.tv_nsec]

(* TimeCheck::expired (utils.h:124) *)
expired(t) == t.tv_sec < clock_gettime.tv_sec \/ t.tv_nsec < clock_gettime.tv_nsec

(* What ::read / ::recv may answer to a request for n bytes: a count up to  *)
(* n, or -1 with errno set                                                  *)
Errnos == {"EINTR", "EAGAIN", "EIO"}
ReadAnswers(n) == [count : 0..n, errno : {"none"}] \cup [count : {-1}, errno : Errnos]

(* A faulty test that takes no answer for an interruption *)
interrupted_never(now, errno) == FALSE

(* if ( bytes_read_now == -1 && errno == EINTR) continue; (part_001:50, 83; *)
(* utils.cc:309, 337).  In Serial::send_ the left side is a size_t and -1   *)
(* is converted to it, so the comparison is the same.                       *)
interrupted(now, errno) == now = -1 /\ errno = "EINTR"

(* A faulty request that asks the OS for the whole size again on every turn *)
ReadRequestWhole(n, done) == n

(* size - bytes_read, the count asked of the OS inside the loop             *)
(* (part_001:48, utils.cc:307)                                              *)
ReadRequest(n, done) == n - done

(* bytes_read += bytes_read_now (part_001:56, utils.cc:314) *)
Accumulate(done, just_read) == done + just_read

(* read_ up to the loop: the test, the first read, the TimeCheck            *)
(* (part_001:32..37, utils.cc:294..299)                                     *)
ReadStart ==
    /\ pc = Idle
    /\ \E n \in Sizes :
          IF ~connected(Chan)
          THEN /\ pc' = "done" /\ raised' = "ConnectionException" /\ size' = n
               /\ UNCHANGED <<bytes_read, bytes_read_now, errno_, timecheck, os_total, ret,
                              attempted>>
          ELSE \E a \in ReadAnswers(n) :
                  /\ size' = n
                  /\ bytes_read_now' = a.count
                  /\ errno_' = a.errno
                  /\ bytes_read' = IF a.count > 0 THEN a.count ELSE 0
                  /\ os_total' = IF a.count > 0 THEN a.count ELSE 0
                  /\ timecheck' = TimeCheck(timeout_.read, timeout_.byte, n)
                  /\ attempted' = TRUE
                  /\ pc' = "loop"
                  /\ UNCHANGED <<ret, raised>>
    /\ UNCHANGED <<chanVars, otherVars, clock, sendLocals>>

(* while (bytes_read < size) { if ( timeout.expired() || bytes_read_now == 0 ) break; *)
(* and return bytes_read (part_001:39..44, 59; utils.cc:301..303, 316)      *)
LoopTest ==
    /\ pc = "loop"
    /\ IF bytes_read < size /\ ~(expired(timecheck) \/ bytes_read_now = 0)
       THEN pc' = "wait" /\ UNCHANGED ret
       ELSE pc' = "done" /\ ret' = bytes_read
    /\ UNCHANGED <<chanVars, otherVars, size, bytes_read, bytes_read_now, errno_, timecheck, clock,
                   os_total, raised, sendLocals, attempted>>

(* if ( this->waitRead_() < 1 ) continue; with Comm::waitRead_ (comm.cc:329): *)
(* select answers ready, timed out, interrupted or failed, and may rewrite    *)
(* timeout_.conn, which it is given by address                                *)
Wait ==
    /\ pc = "wait"
    /\ \E answer \in {"ready", "timeout", "EINTR", "EBADF"}, zeroes_tv \in BOOLEAN :
          /\ timeout_' = IF zeroes_tv THEN [timeout_ EXCEPT !.conn = tv(0)] ELSE timeout_
          /\ errno_' = IF answer \in {"EINTR", "EBADF"} THEN answer ELSE errno_
          /\ IF answer = "EBADF"
             THEN pc' = "done" /\ raised' = "IOException"
             ELSE /\ pc' = IF answer = "ready" THEN "read" ELSE "loop"
                  /\ UNCHANGED raised
    /\ UNCHANGED otherVars
    /\ UNCHANGED <<phase, kind, address_, port_, baudrate_, is_open_, is_connected_, fd_,
                   settings_, os_fds, op, arg, closes, log, err, pre, kept>>
    /\ UNCHANGED <<size, bytes_read, bytes_read_now, timecheck, clock, os_total, ret,
                   sendLocals, attempted>>

(* The read inside the loop and what follows it (part_001:48..56, utils.cc:307..314) *)
ReadMore ==
    /\ pc = "read"
    /\ \E a \in ReadAnswers(ReadRequest(size, bytes_read)) :
          /\ bytes_read_now' = a.count
          /\ errno_' = IF a.count = -1 THEN a.errno ELSE errno_
          /\ os_total' = os_total + (IF a.count > 0 THEN a.count ELSE 0)
          /\ IF interrupted(a.count, a.errno)
             THEN pc' = "loop" /\ UNCHANGED <<bytes_read, raised>>
             ELSE IF a.count < 1
                  THEN pc' = "done" /\ raised' = "InterfaceException" /\ UNCHANGED bytes_read
                  ELSE /\ bytes_read' = Accumulate(bytes_read, a.count)
                       /\ pc' = "loop" /\ UNCHANGED raised
    /\ attempted' = TRUE
    /\ UNCHANGED <<chanVars, otherVars, size, timecheck, clock, ret, sendLocals>>

(* send_: Serial::send_ (part_001:63) and Ether::send_ (utils.cc:320).      *)
(* Serial::send_ keeps both its counters in size_t and makes no write       *)
(* before the loop (part_001:69..72); Ether::send_ keeps bytes_sent_now in  *)
(* ssize_t and sends once before the loop (utils.cc:324).                   *)

(* a < b on two size_t values, each given by the integer nearest to 0 that  *)
(* is congruent to it modulo 2^64: a negative integer stands for a value    *)
(* near SIZE_MAX                                                            *)
size_t_less(a, b) ==
    IF a >= 0 /\ b >= 0 THEN a < b
    ELSE IF a >= 0 THEN TRUE
    ELSE IF b >= 0 THEN FALSE
    ELSE a < b

(* What ::write / ::send may answer to a request for n bytes *)
WriteAnswers(n) == [count : 0..n, errno : {"none"}] \cup [count : {-1}, errno : Errnos]

(* if ( bytes_sent_now < 1 ), on size_t in Serial::send_ (part_001:85) and  *)
(* on ssize_t in Ether::send_ (utils.cc:339)                                *)
less_than_one(k, now) == IF k = "serial" THEN size_t_less(now, 1) ELSE now < 1

(* The most bytes the OS is let to accept within one send_, which keeps the  *)
(* count of accepted bytes finite when bytes_sent goes down                 *)
MaxAccepted == 4

(* size - bytes_sent (part_001:81, utils.cc:335) *)
SendRequest(n, done) == n - done

(* send_ up to the loop (part_001:66..71, utils.cc:322..327) *)
SendStart ==
    /\ pc = Idle
    /\ \E n \in Sizes :
          /\ size' = n
          /\ IF ~connected(Chan)
             THEN /\ pc' = "sent" /\ raised' = "ConnectionException"
                  /\ UNCHANGED <<errno_, timecheck, os_total, sendLocals, attempted>>
             ELSE /\ \E a \in (IF kind = "serial" THEN {[count |-> 0, errno |-> "none"]}
                                ELSE WriteAnswers(n)) :
                        /\ bytes_sent_now' = a.count
                        /\ errno_' = a.errno
                        /\ bytes_sent' = IF a.count > 0 THEN a.count ELSE 0
                        /\ os_total' = IF a.count > 0 THEN a.count ELSE 0
                  /\ timecheck' = TimeCheck(timeout_.send, timeout_.byte, n)
                  /\ attempted' = (kind = "ether")
                  /\ pc' = "sloop"
                  /\ UNCHANGED raised
    /\ UNCHANGED <<chanVars, otherVars, clock, ret, bytes_read, bytes_read_now>>

(* A faulty loop test that treats an expired deadline with bytes still to   *)
(* send as a failure                                                        *)
SendLoopTest_raising ==
    /\ pc = "sloop"
    /\ IF ~size_t_less(bytes_sent, size)
       THEN pc' = "sent" /\ ret' = bytes_sent /\ UNCHANGED raised
       ELSE IF expired(timecheck)
            THEN pc' = "sent" /\ raised' = "TimeoutException" /\ UNCHANGED ret
            ELSE pc' = "swait" /\ UNCHANGED <<ret, raised>>
    /\ UNCHANGED <<chanVars, otherVars, size, bytes_read, bytes_read_now, errno_, timecheck, clock,
                   os_total, sendLocals, attempted>>

(* while (bytes_sent < size) { if ( timeout.expired() ) break; and          *)
(* return bytes_sent (part_001:72..78, 92; utils.cc:329..331, 344)          *)
SendLoopTest ==
    /\ pc = "sloop"
    /\ IF size_t_less(bytes_sent, size) /\ ~expired(timecheck)
       THEN pc' = "swait" /\ UNCHANGED ret
       ELSE pc' = "sent" /\ ret' = bytes_sent
    /\ UNCHANGED <<chanVars, otherVars, size, bytes_read, bytes_read_now, errno_, timecheck, clock,
                   os_total, raised, sendLocals, attempted>>

(* if ( this->waitSend_() < 1 ) continue; with Comm::waitSend_ (comm.cc:351) *)
WaitSend ==
    /\ pc = "swait"
    /\ \E answer \in {"ready", "timeout", "EINTR", "EBADF"}, zeroes_tv \in BOOLEAN :
          /\ timeout_' = IF zeroes_tv THEN [timeout_ EXCEPT !.conn = tv(0)] ELSE timeout_
          /\ errno_' = IF answer \in {"EINTR", "EBADF"} THEN answer ELSE errno_
          /\ IF answer = "EBADF"
             THEN pc' = "sent" /\ raised' = "IOException"
             ELSE /\ pc' = IF answer = "ready" THEN "write" ELSE "sloop"
                  /\ UNCHANGED raised
    /\ UNCHANGED otherVars
    /\ UNCHANGED <<phase, kind, address_, port_, baudrate_, is_open_, is_connected_, fd_,
                   settings_, os_fds, op, arg, closes, log, err, pre, kept>>
    /\ UNCHANGED <<size, bytes_read, bytes_read_now, timecheck, clock, os_total, ret,
                   sendLocals, attempted>>

(* The write inside the loop and what follows it (part_001:81..89,          *)
(* utils.cc:335..342)                                                       *)
SendMore ==
    /\ pc = "write"
    /\ \E a \in WriteAnswers(SendRequest(size, bytes_sent)) :
          /\ os_total + a.count <= MaxAccepted
          /\ bytes_sent_now' = a.count
          /\ errno_' = IF a.count = -1 THEN a.errno ELSE errno_
          /\ os_total' = os_total + (IF a.count > 0 THEN a.count ELSE 0)
          /\ IF interrupted(a.count, a.errno)
             THEN pc' = "sloop" /\ UNCHANGED <<bytes_sent, raised>>
             ELSE IF less_than_one(kind, a.count)
                  THEN pc' = "sent" /\ raised' = "InterfaceException" /\ UNCHANGED bytes_sent
                  ELSE /\ bytes_sent' = bytes_sent + a.count
                       /\ pc' = "sloop" /\ UNCHANGED raised
    /\ attempted' = TRUE
    /\ UNCHANGED <<chanVars, otherVars, size, timecheck, clock, ret, bytes_read, bytes_read_now>>

(* ::send ( fd_, ... ) in Ether::send_ (utils.cc:324, 335) is made without  *)
(* MSG_DONTWAIT on a socket that connect_ switched back to blocking mode    *)
(* (utils.cc:387): when the peer has stopped reading and the socket's       *)
(* buffer has no room for the bytes, the call waits for room.  The wait is  *)
(* bounded by SO_SNDTIMEO, which setOptions_ sets to timeout_.send          *)
(* (utils.cc:399); with a zero timeout_.send, the default, the socket has   *)
(* no send timeout and the call does not return.  select having reported    *)
(* the socket writable does not help: part of the bytes may fit.            *)
SendBlocks ==
    /\ kind = "ether" /\ timeout_.send = tv(0)
    /\ \/ /\ pc = Idle /\ connected(Chan)
          /\ size' \in Sizes \ {0}
       \/ /\ pc = "write"
          /\ UNCHANGED size
    /\ pc' = "blocked"
    /\ UNCHANGED <<chanVars, otherVars, bytes_read, bytes_read_now, errno_, timecheck, clock,
                   os_total, ret, raised, sendLocals, attempted>>

(* Time passes while the caller is inside read_ or send_ *)
Tick ==
    /\ pc \in {"loop", "wait", "read", "sloop", "swait", "write", "blocked"}
    /\ clock < MaxClock
    /\ clock' = clock + 1
    /\ UNCHANGED <<chanVars, otherVars, pc, size, bytes_read, bytes_read_now, errno_, timecheck,
                   os_total, ret, raised, sendLocals, attempted>>

(* The caller takes the result; the next call starts afresh *)
Again ==
    /\ pc \in {"done", "sent"}
    /\ pc' = Idle /\ size' = 0 /\ bytes_read' = 0 /\ bytes_read_now' = 0 /\ errno_' = "none"
    /\ timecheck' = NoTimeCheck /\ os_total' = 0 /\ ret' = 0 /\ raised' = "none"
    /\ bytes_sent' = 0 /\ bytes_sent_now' = 0 /\ attempted' = FALSE
    /\ clock' \in 0..(TicksPerSec - 1)
    /\ UNCHANGED <<chanVars, otherVars>>

(* A channel as the life cycle leaves it: constructed on address "a" with   *)
(* every OS call succeeding, and either still connected or closed since     *)
InitIO ==
    /\ phase = "live" /\ kind \in {"serial", "ether"}
    /\ address_ = "a" /\ port_ = 1 /\ baudrate_ = 9600
    /\ settings_ = Settings(8, 0, 1, 0)
    /\ is_open_ \in BOOLEAN /\ is_connected_ = is_open_
    /\ fd_ = (IF is_open_ THEN 3 ELSE -1) /\ os_fds = (IF is_open_ THEN {3} ELSE {})
    /\ timeout_ \in { IF kind = "serial"
                      THEN [t EXCEPT !.byte = tv(get_bytetime(baudrate_, settings_))]
                      ELSE t : t \in TimeoutInputs }
    /\ op = "none" /\ arg = 0 /\ closes = 0 /\ log = <<>> /\ err = "none"
    /\ pre = NoPre /\ kept = TRUE
    /\ IoIdle /\ clock \in 0..(TicksPerSec - 1)
    /\ eol_ = <<"\n">> /\ eol_len_ = Len(eol_)
    /\ LineIdle /\ LoopIdle /\ ThreadsIdle /\ TimeIdle

NextIO ==
    \/ ReadStart \/ LoopTest \/ Wait \/ ReadMore
    \/ SendStart \/ SendLoopTest \/ WaitSend \/ SendMore \/ SendBlocks
    \/ Tick \/ Again

SpecIO == InitIO /\ [][NextIO]_vars

(* The same under the scheduling a running transfer has: the clock advances *)
(* and the calling thread makes its next step, whichever it is; every       *)
(* readiness wait and every low-level call that can return does return.     *)
FairIO ==
    /\ WF_vars(Tick)
    /\ WF_vars(LoopTest) /\ WF_vars(Wait) /\ WF_vars(ReadMore)
    /\ WF_vars(SendLoopTest) /\ WF_vars(WaitSend) /\ WF_vars(SendMore)

SpecIOLive == SpecIO /\ FairIO


---------------------------------------------------------------------------
(* The line reader: Comm::readline (comm.cc:141) and Comm::readlines        *)
(* (comm.cc:168), one read_ of a single byte per turn of their loops, on a  *)
(* stream of bytes that the peer delivers in order.                         *)

MaxStream == 3
MaxLineSize == 3

Bytes == {"A", "\r", "\n"}
Markers == {<<>>, <<"\n">>, <<"\r", "\n">>}

(* The stream AB\nCDE\n *)
TwoLines == <<"A", "B", "\n", "C", "D", "E", "\n">>

Streams == UNION {[1..n -> Bytes] : n \in 0..MaxStream} \cup {TwoLines}
LineSizes == 0..MaxLineSize \cup {Len(TwoLines)}

(* What one read_ ( buffer_ + read_so_far, 1 ) does (part_001:29,           *)
(* utils.cc:292): it throws, or returns 0 on a timeout, or stores the next  *)
(* byte of the stream and returns 1                                         *)
Read1Answers(s, more) ==
    IF ~connected(s) THEN {"ConnectionException"}
    ELSE {"timeout", "IOException", "InterfaceException"}
         \cup (IF more THEN {"byte"} ELSE {})

(* The last n bytes of the first k bytes of the buffer: buffer_ + k - n *)
tail(buf, k, n) == SubSeq(buf, k - n + 1, k)

(* strncmp on n bytes: 0 when they are equal, some other value when not *)
strncmp(s1, s2, n) == IF SubSeq(s1, 1, n) = SubSeq(s2, 1, n) THEN 0 ELSE 1

(* A faulty append that leaves the marker out of what readline returns *)
appended_without_eol(buf, n) ==
    IF n >= Len(eol_) /\ tail(buf, n, Len(eol_)) = eol_
    THEN SubSeq(buf, 1, n - Len(eol_)) ELSE SubSeq(buf, 1, n)

(* buffer.append ( buffer_, read_so_far ) (comm.cc:154) *)
appended(buf, n) == SubSeq(buf, 1, n)

(* A faulty emplace that leaves the last marker-length bytes out of a line *)
emplaced_without_eol(buf, start, n) ==
    SubSeq(buf, start + 1, IF n - start >= Len(eol_) THEN n - Len(eol_) ELSE n)

(* lines.emplace_back ( buffer_ + start_of_line, read_so_far - start_of_line ) *)
(* (comm.cc:182, 188)                                                          *)
emplaced(buf, start, n) == SubSeq(buf, start + 1, n)

(* Comm::setEOL (comm.cc:258) *)
setEOL ==
    /\ lpc = Idle
    /\ \E eol \in Markers : eol_' = eol /\ eol_len_' = Len(eol)
    /\ UNCHANGED <<stream, lpc, line_size, read_so_far, start_of_line, lines, line,
                   line_raised, line_end>>
    /\ UNCHANGED <<chanVars, ioVars, loopVars, thrVars, timeVars>>

(* The call of readline or readlines: size_t read_so_far = 0 (comm.cc:145,  *)
(* 173..174)                                                                *)
LineCall ==
    /\ lpc = Idle
    /\ \E which \in {"readline", "readlines"}, n \in LineSizes, bytes \in Streams :
          lpc' = which /\ line_size' = n /\ stream' = bytes
    /\ read_so_far' = 0 /\ start_of_line' = 0 /\ lines' = <<>> /\ line' = <<>>
    /\ line_raised' = "none" /\ line_end' = "none"
    /\ UNCHANGED <<eol_, eol_len_, chanVars, ioVars, loopVars, thrVars, timeVars>>

(* A faulty marker test that looks at the bytes before the last one *)
eol_found_late(buf, n) ==
    n > Len(eol_) /\ tail(buf, n - 1, Len(eol_)) = eol_

(* if(read_so_far < this->eol_len_) continue; if (string ( buffer_ +        *)
(* read_so_far - eol_len_, eol_len_ ) == this->eol_) break; (comm.cc:150..152) *)
eol_found(buf, n) ==
    ~(n < eol_len_) /\ tail(buf, n, eol_len_) = eol_

(* readline's way out: the append and the return (comm.cc:154..156) *)
readline_returns(n, why) ==
    /\ lpc' = "line_done" /\ line_end' = why /\ read_so_far' = n
    /\ line' = appended(stream, n)
    /\ UNCHANGED line_raised

(* One turn of readline's loop (comm.cc:146..153) *)
ReadLineTurn ==
    /\ lpc = "readline"
    /\ IF ~(read_so_far < line_size)
       THEN readline_returns(read_so_far, "size")
       ELSE \E a \in Read1Answers(Chan, read_so_far < Len(stream)) :
               IF a = "timeout" THEN readline_returns(read_so_far, "timeout")
               ELSE IF a # "byte"
               THEN /\ lpc' = "line_done" /\ line_end' = "raised" /\ line_raised' = a
                    /\ UNCHANGED <<read_so_far, line>>
               ELSE LET n == read_so_far + 1 IN
                    IF ~eol_found(stream, n)
                    THEN /\ read_so_far' = n
                         /\ UNCHANGED <<lpc, line, line_raised, line_end>>
                    ELSE readline_returns(n, "eol")
    /\ UNCHANGED <<eol_, eol_len_, stream, line_size, start_of_line, lines>>
    /\ UNCHANGED <<chanVars, ioVars, loopVars, thrVars, timeVars>>

(* A faulty way out that returns without the bytes read after the last     *)
(* line that was split off                                                  *)
without_last_line(ls, buf, start, n) == ls

(* if (start_of_line != read_so_far) lines.emplace_back ( buffer_ +         *)
(* start_of_line, read_so_far - start_of_line ) (comm.cc:187..188)          *)
with_last_line(ls, buf, start, n) ==
    IF start # n
    THEN Append(ls, [text |-> emplaced(buf, start, n), split |-> FALSE])
    ELSE ls

(* readlines' way out: the last line and the return (comm.cc:187..190) *)
readlines_returns(ls, start, n, why) ==
    /\ lpc' = "lines_done" /\ line_end' = why /\ read_so_far' = n /\ start_of_line' = start
    /\ lines' = with_last_line(ls, stream, start, n)
    /\ UNCHANGED line_raised

(* One turn of readlines' loop (comm.cc:175..186) *)
ReadLinesTurn ==
    /\ lpc = "readlines"
    /\ IF ~(read_so_far < line_size)
       THEN readlines_returns(lines, start_of_line, read_so_far, "size")
       ELSE \E a \in Read1Answers(Chan, read_so_far < Len(stream)) :
               IF a = "timeout"
               THEN readlines_returns(lines, start_of_line, read_so_far, "timeout")
               ELSE IF a # "byte"
               THEN /\ lpc' = "lines_done" /\ line_end' = "raised" /\ line_raised' = a
                    /\ UNCHANGED <<read_so_far, start_of_line, lines>>
               ELSE LET n == read_so_far + 1 IN
                    IF n < eol_len_ + start_of_line
                    THEN /\ read_so_far' = n
                         /\ UNCHANGED <<lpc, start_of_line, lines, line_raised, line_end>>
                    ELSE LET found == strncmp(tail(stream, n, eol_len_), eol_, eol_len_) # 0
                             ls == IF found
                                   THEN Append(lines, [text |-> emplaced(stream, start_of_line, n),
                                                       split |-> TRUE])
                                   ELSE lines
                             start == IF found THEN n ELSE start_of_line
                         IN  IF n = line_size
                             THEN readlines_returns(ls, start, n, "size")
                             ELSE /\ read_so_far' = n /\ lines' = ls /\ start_of_line' = start
                                  /\ UNCHANGED <<lpc, line_raised, line_end>>
    /\ UNCHANGED <<eol_, eol_len_, stream, line_size, line>>
    /\ UNCHANGED <<chanVars, ioVars, loopVars, thrVars, timeVars>>

(* The caller takes the result *)
LineReturn ==
    /\ lpc \in {"line_done", "lines_done"}
    /\ lpc' = Idle /\ stream' = <<>> /\ line_size' = 0 /\ read_so_far' = 0
    /\ start_of_line' = 0 /\ lines' = <<>> /\ line' = <<>>
    /\ line_raised' = "none" /\ line_end' = "none"
    /\ UNCHANGED <<eol_, eol_len_, chanVars, ioVars, loopVars, thrVars, timeVars>>

(* A channel constructed on address "a" with the default marker or with an  *)
(* empty one (Comm::Comm, comm.cc:23, stores the eol it is given; comm.h:73 *)
(* has the default), connected or closed since                              *)
InitLine ==
    /\ phase = "live" /\ kind \in {"serial", "ether"}
    /\ address_ = "a" /\ port_ = 1 /\ baudrate_ = 9600
    /\ settings_ = Settings(8, 0, 1, 0)
    /\ is_open_ \in BOOLEAN /\ is_connected_ = is_open_
    /\ fd_ = (IF is_open_ THEN 3 ELSE -1) /\ os_fds = (IF is_open_ THEN {3} ELSE {})
    /\ timeout_ = Timeout(0, 0, 0, 0)
    /\ op = "none" /\ arg = 0 /\ closes = 0 /\ log = <<>> /\ err = "none"
    /\ pre = NoPre /\ kept = TRUE
    /\ IoIdle /\ clock = 0
    /\ eol_ \in {<<"\n">>, <<>>} /\ eol_len_ = Len(eol_)
    /\ LineIdle /\ LoopIdle /\ ThreadsIdle /\ TimeIdle

NextLine == setEOL \/ LineCall \/ ReadLineTurn \/ ReadLinesTurn \/ LineReturn

SpecLine == InitLine /\ [][NextLine]_vars


---------------------------------------------------------------------------
(* A loopback pair: send_ on one end and read_ on the other end of a        *)
(* reliable FIFO byte stream, each low-level call moving any part of what   *)
(* it was asked for.  The two ends are channels of the same class and in    *)
(* the same state; deadlines are left to the environment: either loop may   *)
(* find its TimeCheck expired at any turn.                                  *)

MaxPayload == 2
MaxWire == 3

Payloads == UNION {[1..n -> {"a", "b"}] : n \in 1..MaxPayload}

(* ::write ( fd_, data + bytes_sent, k ): the k bytes of data from offset   *)
(* bytes_sent go onto the wire (part_001:81, utils.cc:325, 335)             *)
written(data, done, k) == SubSeq(data, done + 1, done + k)

(* ::read ( fd_, data + bytes_read, k ): the first k bytes of the wire are  *)
(* stored in the buffer from offset bytes_read (part_001:34, 48)            *)
stored(buf, done, bytes) == SubSeq(buf, 1, done) \o bytes

(* send_ up to its loop (part_001:63..71, utils.cc:320..327) *)
LoopSendStart ==
    /\ wpc = Idle /\ rpc = Idle /\ connected(Chan)
    /\ \E data \in Payloads :
          /\ tx' = data /\ size' = Len(data)
          /\ \E a \in (IF kind = "serial" THEN {[count |-> 0, errno |-> "none"]}
                       ELSE WriteAnswers(Len(data))) :
                /\ bytes_sent_now' = a.count
                /\ bytes_sent' = IF a.count > 0 THEN a.count ELSE 0
                /\ wire' = IF a.count > 0 THEN written(data, 0, a.count) ELSE <<>>
    /\ wpc' = "loop"
    /\ UNCHANGED <<rx, rpc, sent, got>>
    /\ UNCHANGED <<pc, bytes_read, bytes_read_now, errno_, timecheck, clock, os_total, ret,
                   raised>>
    /\ UNCHANGED <<chanVars, lineVars, thrVars, timeVars, attempted>>

(* One turn of send_'s loop, or its return (part_001:72..92,                *)
(* utils.cc:329..344)                                                       *)
LoopSendTurn ==
    /\ wpc = "loop"
    /\ IF ~size_t_less(bytes_sent, size)
       THEN wpc' = "sent" /\ sent' = bytes_sent /\ UNCHANGED <<wire, sendLocals>>
       ELSE \/ wpc' = "sent" /\ sent' = bytes_sent /\ UNCHANGED <<wire, sendLocals>>
            \/ \E a \in WriteAnswers(SendRequest(size, bytes_sent)) :
                  /\ Len(wire) + a.count <= MaxWire
                  /\ bytes_sent_now' = a.count
                  /\ wire' = IF a.count > 0 THEN wire \o written(tx, bytes_sent, a.count)
                             ELSE wire
                  /\ IF interrupted(a.count, a.errno)
                     THEN UNCHANGED <<wpc, sent, bytes_sent>>
                     ELSE IF less_than_one(kind, a.count)
                          THEN wpc' = "raised" /\ UNCHANGED <<sent, bytes_sent>>
                          ELSE /\ bytes_sent' = bytes_sent + a.count
                               /\ UNCHANGED <<wpc, sent>>
    /\ UNCHANGED <<tx, rx, rpc, got>>
    /\ UNCHANGED <<pc, size, bytes_read, bytes_read_now, errno_, timecheck, clock, os_total,
                   ret, raised>>
    /\ UNCHANGED <<chanVars, lineVars, thrVars, timeVars, attempted>>

(* What ::read / ::recv may answer to a request for n bytes when w is on    *)
(* the wire                                                                 *)
WireAnswers(n, w) ==
    [count : 0..(IF n < Len(w) THEN n ELSE Len(w)), errno : {"none"}]
        \cup [count : {-1}, errno : Errnos]

(* read_ up to its loop (part_001:29..37, utils.cc:292..299) *)
LoopReadStart ==
    /\ rpc = Idle /\ wpc # Idle
    /\ \E a \in WireAnswers(size, wire) :
          /\ bytes_read_now' = a.count
          /\ bytes_read' = IF a.count > 0 THEN a.count ELSE 0
          /\ rx' = IF a.count > 0 THEN stored(<<>>, 0, SubSeq(wire, 1, a.count)) ELSE <<>>
          /\ wire' = IF a.count > 0 THEN SubSeq(wire, a.count + 1, Len(wire)) ELSE wire
    /\ rpc' = "loop"
    /\ UNCHANGED <<tx, wpc, sent, got>>
    /\ UNCHANGED <<pc, size, errno_, timecheck, clock, os_total, ret, raised, sendLocals>>
    /\ UNCHANGED <<chanVars, lineVars, thrVars, timeVars, attempted>>

(* One turn of read_'s loop, or its return (part_001:39..59,                *)
(* utils.cc:301..316)                                                       *)
LoopReadTurn ==
    /\ rpc = "loop"
    /\ IF ~(bytes_read < size) \/ bytes_read_now = 0
       THEN rpc' = "done" /\ got' = bytes_read
            /\ UNCHANGED <<wire, rx, bytes_read, bytes_read_now>>
       ELSE \/ rpc' = "done" /\ got' = bytes_read
               /\ UNCHANGED <<wire, rx, bytes_read, bytes_read_now>>
            \/ \E a \in WireAnswers(ReadRequest(size, bytes_read), wire) :
                  /\ bytes_read_now' = a.count
                  /\ IF interrupted(a.count, a.errno)
                     THEN UNCHANGED <<rpc, got, bytes_read, rx, wire>>
                     ELSE IF a.count < 1
                          THEN rpc' = "raised" /\ UNCHANGED <<got, bytes_read, rx, wire>>
                          ELSE /\ bytes_read' = Accumulate(bytes_read, a.count)
                               /\ rx' = stored(rx, bytes_read, SubSeq(wire, 1, a.count))
                               /\ wire' = SubSeq(wire, a.count + 1, Len(wire))
                               /\ UNCHANGED <<rpc, got>>
    /\ UNCHANGED <<tx, wpc, sent>>
    /\ UNCHANGED <<pc, size, errno_, timecheck, clock, os_total, ret, raised, sendLocals>>
    /\ UNCHANGED <<chanVars, lineVars, thrVars, timeVars, attempted>>

(* Both callers have their results; the next transfer starts on a drained   *)
(* wire                                                                     *)
LoopReturn ==
    /\ wpc \in {"sent", "raised"} /\ rpc \in {"done", "raised"}
    /\ tx' = <<>> /\ wire' = <<>> /\ rx' = <<>> /\ wpc' = Idle /\ rpc' = Idle
    /\ sent' = 0 /\ got' = 0
    /\ size' = 0 /\ bytes_read' = 0 /\ bytes_read_now' = 0
    /\ bytes_sent' = 0 /\ bytes_sent_now' = 0
    /\ UNCHANGED <<pc, errno_, timecheck, clock, os_total, ret, raised>>
    /\ UNCHANGED <<chanVars, lineVars, thrVars, timeVars, attempted>>

InitLoop == InitIO

NextLoop == LoopSendStart \/ LoopSendTurn \/ LoopReadStart \/ LoopReadTurn \/ LoopReturn

SpecLoop == InitLoop /\ [][NextLoop]_vars


---------------------------------------------------------------------------
(* Threads calling into one channel: every public method constructs its     *)
(* boost::lock_guard objects first, in the order written, runs its body,    *)
(* and releases them when it returns or throws.                             *)

ReadFamily == {"read", "readline", "readlines", "waitRead"}
SendFamily == {"send", "waitSend"}
Structural == {"open", "close", "flush", "setAddress", "setTimeout"}
Methods == ReadFamily \cup SendFamily \cup Structural \cup {"setEOL"}

(* Faulty guard lists: a read family that takes no lock, and one that takes *)
(* both                                                                     *)
guards_without_read_lock(m) ==
    IF m \in ReadFamily THEN <<>>
    ELSE IF m \in SendFamily THEN <<"mtx_send">>
    ELSE IF m = "setEOL" THEN <<"mtx_read">>
    ELSE <<"mtx_read", "mtx_send">>
guards_with_both_locks(m) ==
    IF m \in SendFamily THEN <<"mtx_send">> ELSE <<"mtx_read", "mtx_send">>

(* Two more: a readline that takes no lock, and a close that takes mtx_send *)
(* before mtx_read                                                          *)
guards_readline_unlocked(m) ==
    IF m = "readline" THEN <<>>
    ELSE IF m \in ReadFamily \/ m = "setEOL" THEN <<"mtx_read">>
    ELSE IF m \in SendFamily THEN <<"mtx_send">>
    ELSE <<"mtx_read", "mtx_send">>
guards_setEOL_under_send(m) ==
    IF m \in ReadFamily THEN <<"mtx_read">>
    ELSE IF m \in SendFamily \/ m = "setEOL" THEN <<"mtx_send">>
    ELSE <<"mtx_read", "mtx_send">>
guards_send_before_read(m) ==
    IF m \in ReadFamily \/ m = "setEOL" THEN <<"mtx_read">>
    ELSE IF m \in SendFamily THEN <<"mtx_send">>
    ELSE IF m = "close" THEN <<"mtx_send", "mtx_read">>
    ELSE <<"mtx_read", "mtx_send">>

(* The lock_guards of a method, in order: mtx_read alone in waitRead, read, *)
(* readline, readlines and setEOL (comm.cc:85, 101, 108, 121, 143, 170,     *)
(* 259), mtx_send alone in waitSend and send (comm.cc:89, 202, 209, 216),   *)
(* mtx_read then mtx_send in the others (comm.cc:35..36, 44..45, 53..54,    *)
(* 228..229, 266..267)                                                      *)
lock_guards(m) ==
    IF m \in ReadFamily \/ m = "setEOL" THEN <<"mtx_read">>
    ELSE IF m \in SendFamily THEN <<"mtx_send">>
    ELSE <<"mtx_read", "mtx_send">>

holder(mtx) == IF mtx = "mtx_read" THEN mtx_read ELSE mtx_send

(* The mutexes a thread holds *)
held(t) == (IF mtx_read = t THEN {"mtx_read"} ELSE {}) \cup
           (IF mtx_send = t THEN {"mtx_send"} ELSE {})

(* The field a method stores to before it constructs its first lock_guard:  *)
(* this->address_ = address in setAddress (comm.cc:227; setPort and         *)
(* setBaudrate do the same with port_ and baudrate_, comm.cc:238, 249)      *)
early_write(m) == IF m = "setAddress" THEN "address_" ELSE "none"

(* The body of a method after its lock_guards, as the steps that touch the  *)
(* channel: driver calls, stores to fields, and OS calls on the handle.     *)
(* read_ and send_ wait with waitRead_ / waitSend_ between transfers        *)
(* (part_001:46, 79); readline and readlines call read_ once per byte       *)
(* (comm.cc:147, 176)                                                       *)
body(m) ==
    CASE m = "read"       -> <<"::read", "waitRead_", "::read">>
      [] m = "readline"   -> <<"::read", "::read">>
      [] m = "readlines"  -> <<"::read", "::read">>
      [] m = "waitRead"   -> <<"waitRead_">>
      [] m = "send"       -> <<"waitSend_", "::write">>
      [] m = "waitSend"   -> <<"waitSend_">>
      [] m = "open"       -> <<"open_", "connect_">>
      [] m = "close"      -> <<"close_">>
      [] m = "flush"      -> <<"flush_">>
      [] m = "setAddress" -> <<"close_", "open_">>
      [] m = "setTimeout" -> <<"timeout_", "setOptions_">>
      [] m = "setEOL"     -> <<"eol_", "eol_len_">>

(* The field a step stores to: select is given &timeout_.conn and rewrites  *)
(* it (comm.cc:334, 357), open_ and close_ store fd_ and is_open_           *)
(* (part_001:98, 109; comm.cc:313..316), connect_ stores is_connected_      *)
(* (part_001:117), setEOL stores eol_ and then eol_len_ (comm.cc:260)       *)
writes(step) ==
    CASE step \in {"waitRead_", "waitSend_", "timeout_"} -> "timeout_"
      [] step \in {"open_", "close_"} -> "fd_"
      [] step = "connect_" -> "is_connected_"
      [] step = "eol_" -> "eol_"
      [] step = "eol_len_" -> "eol_len_"
      [] OTHER -> "none"

(* The bytes of a call that returned stay in the stream's history as 0; the *)
(* history before the first byte of a running call is dropped               *)
returned(bytes, t) ==
    LET marked == [i \in 1..Len(bytes) |-> IF bytes[i] = t THEN 0 ELSE bytes[i]]
        live   == {i \in 1..Len(bytes) : marked[i] # 0}
    IN  IF live = {} THEN <<>>
        ELSE SubSeq(marked, CHOOSE i \in live : \A j \in live : i <= j, Len(bytes))

(* The most bytes of the incoming stream the history holds *)
MaxBytes == 3

(* The markers a thread gives to setEOL, of different lengths *)
EolArgs == {<<"\n">>, <<"\r", "\n">>}

(* A thread calls a method, and runs what the method does before its first  *)
(* lock_guard                                                               *)
ThreadCall(t) ==
    /\ threads[t].at = "out"
    /\ \E m \in Methods :
          /\ \E eol \in (IF m = "setEOL" THEN EolArgs ELSE {<<>>}) :
                threads' = [threads EXCEPT ![t] = [op |-> m, at |-> "locking", guards |-> 0,
                                                   step |-> 0, eol |-> eol]]
          /\ last_write' = IF early_write(m) # "none"
                           THEN [field |-> early_write(m), held |-> held(t)]
                           ELSE NoWrite
    /\ UNCHANGED <<mtx_read, mtx_send, taken>>
    /\ UNCHANGED <<chanVars, ioVars, lineVars, loopVars, timeVars>>

(* boost::lock_guard<boost::mutex> lock ( mtx ): the thread waits until the *)
(* mutex is free and takes it; after the last guard the body starts         *)
ThreadLock(t) ==
    /\ threads[t].at = "locking"
    /\ LET gs == lock_guards(threads[t].op)
           n  == threads[t].guards
       IN  IF n = Len(gs)
           THEN /\ threads' = [threads EXCEPT ![t].at = "body"]
                /\ UNCHANGED <<mtx_read, mtx_send>>
           ELSE /\ holder(gs[n + 1]) = 0
                /\ mtx_read' = IF gs[n + 1] = "mtx_read" THEN t ELSE mtx_read
                /\ mtx_send' = IF gs[n + 1] = "mtx_send" THEN t ELSE mtx_send
                /\ threads' = [threads EXCEPT ![t].guards = n + 1,
                                              ![t].at = IF n + 1 = Len(gs) THEN "body"
                                                        ELSE "locking"]
    /\ last_write' = NoWrite
    /\ UNCHANGED taken
    /\ UNCHANGED <<chanVars, ioVars, lineVars, loopVars, timeVars>>

(* One step of the body: a store to a field, or a transfer, which takes the *)
(* next byte of the incoming stream when it is a read.  setEOL stores the   *)
(* marker it was given, then its length: this->eol_ = eol;                  *)
(* this->eol_len_ = eol.length() (comm.cc:260)                              *)
ThreadStep(t) ==
    /\ threads[t].at = "body"
    /\ threads[t].step < Len(body(threads[t].op))
    /\ LET s == body(threads[t].op)[threads[t].step + 1] IN
          /\ threads' = [threads EXCEPT ![t].step = @ + 1]
          /\ last_write' = IF writes(s) # "none"
                           THEN [field |-> writes(s), held |-> held(t)]
                           ELSE NoWrite
          /\ taken' = IF s = "::read" /\ Len(taken) < MaxBytes
                      THEN Append(taken, t) ELSE taken
          /\ eol_' = IF s = "eol_" THEN threads[t].eol ELSE eol_
          /\ eol_len_' = IF s = "eol_len_" THEN Len(threads[t].eol) ELSE eol_len_
    /\ UNCHANGED <<mtx_read, mtx_send>>
    /\ UNCHANGED <<chanVars, ioVars, lineLocals, loopVars, timeVars>>

(* The method returns or throws, at the end of its body or from any step of *)
(* it: its lock_guards are destroyed.  Nothing throws between the two       *)
(* stores of setEOL: string::length is noexcept (comm.cc:260)               *)
ThreadReturn(t) ==
    /\ threads[t].at = "body"
    /\ ~(threads[t].op = "setEOL" /\ threads[t].step = 1)
    /\ mtx_read' = IF mtx_read = t THEN 0 ELSE mtx_read
    /\ mtx_send' = IF mtx_send = t THEN 0 ELSE mtx_send
    /\ threads' = [threads EXCEPT ![t] = NoCall]
    /\ taken' = returned(taken, t)
    /\ last_write' = NoWrite
    /\ UNCHANGED <<chanVars, ioVars, lineVars, loopVars, timeVars>>

(* A connected channel and no thread inside it *)
InitThreads ==
    /\ phase = "live" /\ kind \in {"serial", "ether"}
    /\ address_ = "a" /\ port_ = 1 /\ baudrate_ = 9600
    /\ settings_ = Settings(8, 0, 1, 0)
    /\ is_open_ = TRUE /\ is_connected_ = TRUE /\ fd_ = 3 /\ os_fds = {3}
    /\ timeout_ = Timeout(0, 0, 0, 0)
    /\ op = "none" /\ arg = 0 /\ closes = 0 /\ log = <<>> /\ err = "none"
    /\ pre = NoPre /\ kept = TRUE
    /\ IoIdle /\ clock = 0
    /\ eol_ = <<"\n">> /\ eol_len_ = Len(eol_)
    /\ LineIdle /\ LoopIdle /\ ThreadsIdle /\ TimeIdle

NextThreads ==
    \E t \in Threads : ThreadCall(t) \/ ThreadLock(t) \/ ThreadStep(t) \/ ThreadReturn(t)

SpecThreads == InitThreads /\ [][NextThreads]_vars


---------------------------------------------------------------------------
(* to_timeval (utils.cc:22) over its whole range.  A 64-bit integer is kept *)
(* as two halves, hi * 2^16 + lo with 0 <= lo < 2^16, so that values around *)
(* 2^32 can be told apart; the double it is given is its floor plus a rest  *)
(* below one second, in tenths of a microsecond.                            *)

(* sec + carry, for a carry of 0 or 1 *)
plus(sec, carry) ==
    [hi |-> sec.hi + (sec.lo + carry) \div 65536, lo |-> (sec.lo + carry) % 65536]

(* A faulty to_timeval that converts without the range test *)
to_timeval_unchecked(sec64, rest) ==
    LET usec == (rest + 5) \div 10
    IN  [ok |-> TRUE, tv_sec |-> plus(sec64, usec \div UsecPerSec),
         tv_usec |-> usec % UsecPerSec]

(* to_timeval (utils.cc:22..34): sec64 = floor(data), the range test, then  *)
(* tv_usec = round((data - sec64) * 1e6), carried into tv_sec               *)
to_timeval_wide(sec64, rest) ==
    IF sec64.hi < 0 \/ sec64.hi > 65535
    THEN [ok |-> FALSE, tv_sec |-> [hi |-> 0, lo |-> 0], tv_usec |-> 0]
    ELSE LET usec == (rest + 5) \div 10
         IN  [ok |-> TRUE, tv_sec |-> plus(sec64, usec \div UsecPerSec),
              tv_usec |-> usec % UsecPerSec]

(* The times tried: seconds around 0, 2^16 and 2^32, rests around 0, one    *)
(* half and 1                                                               *)
TimeInputs ==
    [sec  : [hi : {-1, 0, 1, 65535, 65536}, lo : {0, 1, 65535}],
     frac : {0, 4, 5, 10, 5000000, 9999990, 9999995}]

(* The caller has a time to convert *)
TimeCall ==
    /\ time = NoTime /\ given = Zero
    /\ given' \in TimeInputs \ {Zero}
    /\ UNCHANGED time
    /\ UNCHANGED <<chanVars, ioVars, lineVars, loopVars, thrVars>>

(* to_timeval ( data ) *)
ToTimeval ==
    /\ time = NoTime
    /\ time' = to_timeval_wide(given.sec, given.frac)
    /\ UNCHANGED given
    /\ UNCHANGED <<chanVars, ioVars, lineVars, loopVars, thrVars>>

(* The caller takes the result, or catches the std::runtime_error *)
TimeReturn ==
    /\ time # NoTime
    /\ time' = NoTime /\ given' = Zero
    /\ UNCHANGED <<chanVars, ioVars, lineVars, loopVars, thrVars>>

InitTime == InitThreads

NextTime == TimeCall \/ ToTimeval \/ TimeReturn

SpecTime == InitTime /\ [][NextTime]_vars


---------------------------------------------------------------------------
(* Properties *)

Has(e)        == \E i \in 1..Len(log) : log[i] = e
First(e)      == CHOOSE i \in 1..Len(log) : log[i] = e /\ \A j \in 1..(i - 1) : log[j] # e
Before(e, f)  == Has(e) /\ Has(f) /\ \A i, j \in 1..Len(log) : log[i] = e /\ log[j] = f => i < j
DriverSteps   == SelectSeq(log, LAMBDA e : e \in {"open_", "close_", "connect_", "setOptions_"})
ConfigureCalls == {"::tcgetattr", "::tcsetattr", "::setsockopt", "::getsockopt"}
OsCalls       == {"::open", "::close", "::fcntl", "::connect", "::select", "::tcdrain",
                  "::tcflush", "::read", "::write", "inet_pton"} \cup ConfigureCalls
WasClosed     == ~pre.is_open_ /\ ~pre.is_connected_
WasConnected  == pre.is_open_ /\ pre.is_connected_
Reconfigured  == op \in {"setAddress", "setPort", "setBaudrate"}
ReadOrSend    == op \in {"read", "readline", "readlines", "send"}

(* C1: in every state of a constructed channel, is_connected implies        *)
(* is_open.                                                                 *)
C1_ConnectedImpliesOpen == phase = "live" => (is_connected_ => is_open_)

(* C2: in every state of a constructed channel, fd_ is the invalid value -1 *)
(* when is_open is false and a descriptor the OS holds open for the channel *)
(* when is_open is true.                                                    *)
C2_HandleValidIffOpen ==
    phase = "live" => /\ ~is_open_ => fd_ = -1
                      /\ is_open_ => fd_ \in os_fds

(* C3: whatever the channel's state and whatever the OS answers to ::close, *)
(* close() ends with is_open false, is_connected false and the handle       *)
(* released.                                                                *)
C3_CloseAlwaysCloses ==
    op = "close" => /\ ~is_open_ /\ ~is_connected_
                    /\ fd_ = -1 /\ os_fds = {}

(* C4: close() called twice in a row raises no error in either call, leaves *)
(* is_open false after the first and after the second call, and the second  *)
(* call issues no OS close.                                                 *)
C4_CloseIdempotent ==
    /\ (op = "close" /\ closes >= 1) => (err = "none" /\ ~is_open_)
    /\ (op = "close" /\ closes = 2) => ~Has("::close")

(* C5: setAddress, setPort or setBaudrate with a new value on a Connected   *)
(* channel, when no OS call fails, returns with the channel Open and        *)
(* Connected, so that a following read or send does not fail with the       *)
(* not-connected error.                                                     *)
C5_ReconfigureReconnects ==
    (Reconfigured /\ WasConnected /\ log # <<>> /\ err = "none")
        => (is_open_ /\ is_connected_)

(* C6: open() (also the one the constructor makes) on a Closed channel with *)
(* a non-empty address, and a non-zero port on Ethernet, when nothing       *)
(* fails, runs the driver steps open, connect, configure in this order and  *)
(* ends with is_open and is_connected true; is_connected is written after   *)
(* is_open and after every configuration call.                              *)
C6_OpenOrder ==
    (/\ op \in {"open", "construct"} /\ WasClosed /\ err = "none"
     /\ address_ # "" /\ (kind = "ether" => port_ # 0))
        => /\ is_open_ /\ is_connected_
           /\ DriverSteps = <<"open_", "connect_", "setOptions_">>
           /\ Before("::open", "is_open_")
           /\ Before("is_open_", "is_connected_")
           /\ \E c \in ConfigureCalls : Has(c)
           /\ \A c \in ConfigureCalls : Has(c) => Before(c, "is_connected_")

(* C6 witness: an Ethernet open() from Closed that had to wait for the      *)
(* connection with select and succeeded.                                    *)
C6_Witness ==
    /\ op = "open" /\ WasClosed /\ err = "none" /\ kind = "ether"
    /\ Has("::select") /\ is_connected_

C8_EmptyAddressStaysClosed ==
    (op = "construct" /\ (address_ = "" \/ (kind = "ether" /\ port_ = 0)))
        => /\ phase = "live" /\ err = "none"
           /\ ~is_open_ /\ ~is_connected_ /\ os_fds = {} /\ ~Has("::open")

(* C9 as stated: read, readline, readlines and send on a channel that is    *)
(* not both open and connected fail with the not-connected error, make no   *)
(* OS call and change no field.                                             *)
C9_NotConnectedFails ==
    (ReadOrSend /\ ~WasConnected)
        => (err = "ConnectionException" /\ log = <<>> /\ kept)

(* C9 amended: read and send with any size, and readline and readlines with *)
(* a size limit of at least 1, on a channel that is not both open and       *)
(* connected fail with the not-connected error, make no OS call and change  *)
(* no field; readline and readlines with size limit 0 return empty without  *)
(* an error.                                                                *)
C9_NotConnectedFailsForPositiveSize ==
    /\ (ReadOrSend /\ ~WasConnected /\ (op \in {"read", "send"} \/ arg > 0))
           => (err = "ConnectionException" /\ log = <<>> /\ kept)
    /\ (op \in {"readline", "readlines"} /\ arg = 0)
           => (err = "none" /\ log = <<>> /\ kept)

(* C9 witness: readline with a positive size limit was refused on a channel *)
(* that is open but not connected.                                          *)
C9_Witness ==
    /\ op = "readline" /\ arg > 0 /\ pre.is_open_ /\ ~pre.is_connected_
    /\ err = "ConnectionException"

(* C10: a read(size) that returns normally returns a count between 0 and    *)
(* size that equals the sum of the positive counts the low-level reads of   *)
(* the operation returned; the running total has that property at every     *)
(* step.                                                                    *)
C10_ReadCount ==
    /\ pc \in {"loop", "wait", "read"} => (bytes_read = os_total /\ bytes_read <= size)
    /\ (pc = "done" /\ raised = "none")
           => (0 <= ret /\ ret <= size /\ ret = os_total)

(* C10 witness: a read returned a partial count after an interruption.      *)
C10_Witness ==
    /\ pc = "done" /\ raised = "none" /\ 0 < ret /\ ret < size /\ errno_ = "EINTR"

(* The monotonic clock and the deadline of the running transfer, both in    *)
(* microseconds: the deadline is start + budget + per_byte x size x 2,      *)
(* which is what the two fields of the TimeCheck add up to                  *)
NowUsec      == clock * (UsecPerSec \div TicksPerSec)
DeadlineUsec == timecheck.tv_sec * UsecPerSec + timecheck.tv_nsec \div 1000
DeadlineElapsed == DeadlineUsec <= NowUsec

(* C11: whenever read(size) returns normally with count < size, the         *)
(* deadline computed at the start of the call has already elapsed on the    *)
(* monotonic clock at the time of return.                                   *)
C11_ShortReadAfterDeadline ==
    (pc = "done" /\ raised = "none" /\ ret < size) => DeadlineElapsed

(* C12: for both transports and every answer of the OS write call, send     *)
(* either raises or returns bytes_sent with 0 <= bytes_sent <= size; the    *)
(* running total never decreases during the operation (it is at every step  *)
(* the number of bytes the low-level writes have accepted so far, which     *)
(* only grows), and the returned value is that number.                      *)
C12_SendCount ==
    /\ pc \in {"sloop", "swait", "write"}
           => (bytes_sent = os_total /\ 0 <= bytes_sent /\ bytes_sent <= size)
    /\ (pc = "sent" /\ raised = "none")
           => (0 <= ret /\ ret <= size /\ ret = os_total)

(* The loop test of a transfer that still has bytes to go, the running      *)
(* total it holds, and the deadline being over                              *)
ShortAtTest ==
    \/ (pc = "loop" /\ bytes_read < size)
    \/ (pc = "sloop" /\ size_t_less(bytes_sent, size))
RunningTotal == IF pc = "loop" THEN bytes_read ELSE bytes_sent
DeadlineOver == DeadlineUsec < NowUsec \/ expired(timecheck)

(* C13: when the loop test of read_ or send_ runs with the deadline over    *)
(* and fewer than size bytes transferred, the operation returns the running *)
(* total as a normal result; and every error a read or send raises has a    *)
(* cause other than the short count: the channel is not connected, the      *)
(* readiness wait failed, or a low-level transfer after a ready wait moved  *)
(* no byte.                                                                 *)
C13_TimeoutIsNormal ==
    /\ [][(ShortAtTest /\ DeadlineOver /\ pc' # pc)
             => (pc' \in {"done", "sent"} /\ raised' = "none" /\ ret' = RunningTotal)]_vars
    /\ [](pc \in {"done", "sent"} =>
             /\ raised \in {"none", "ConnectionException", "IOException", "InterfaceException"}
             /\ raised = "ConnectionException" => ~connected(Chan)
             /\ raised = "IOException" => errno_ = "EBADF"
             /\ raised = "InterfaceException" =>
                    IF pc = "done" THEN bytes_read_now < 1 ELSE bytes_sent_now < 1)

(* C13 witness: an Ethernet send came back with part of the bytes after its *)
(* deadline had passed.                                                     *)
C13_Witness ==
    /\ pc = "sent" /\ kind = "ether" /\ raised = "none"
    /\ 0 < ret /\ ret < size /\ DeadlineUsec < NowUsec

(* What the line reader consumed of the stream, and helpers on byte strings *)
Consumed == SubSeq(stream, 1, read_so_far)
EndsWith(s, m) == Len(s) >= Len(m) /\ SubSeq(s, Len(s) - Len(m) + 1, Len(s)) = m
Contains(s, m) == \E i \in 1..(Len(s) - Len(m) + 1) : SubSeq(s, i, i + Len(m) - 1) = m
IsPrefix(s, whole) == Len(s) <= Len(whole) /\ SubSeq(whole, 1, Len(s)) = s
ReadLineReturned  == lpc = "line_done" /\ line_raised = "none" /\ eol_ # <<>>
ReadLinesReturned == lpc = "lines_done" /\ line_raised = "none" /\ eol_ # <<>>

RECURSIVE Framed(_, _, _, _, _)
Framed(buf, m, i, start, acc) ==
    IF i > Len(buf)
    THEN IF start # Len(buf) THEN Append(acc, SubSeq(buf, start + 1, Len(buf))) ELSE acc
    ELSE IF i - start >= Len(m) /\ SubSeq(buf, i - Len(m) + 1, i) = m
         THEN Framed(buf, m, i + 1, i, Append(acc, SubSeq(buf, start + 1, i - Len(m))))
         ELSE Framed(buf, m, i + 1, start, acc)
Texts == [i \in 1..Len(lines) |-> lines[i].text]

(* C15: with a non-empty marker, readlines starts a new line exactly where  *)
(* the last marker-length bytes of the current line equal the marker, each  *)
(* line excludes the marker and bytes after the last marker form a final    *)
(* line; with marker "\n" and stream AB\nCDE\n, readlines(7) returns        *)
(* ["AB", "CDE"].                                                           *)
C15_LinesSplitOnMarker ==
    ReadLinesReturned =>
        /\ Texts = Framed(Consumed, eol_, 1, 0, <<>>)
        /\ (eol_ = <<"\n">> /\ stream = TwoLines /\ read_so_far = Len(TwoLines))
               => Texts = << <<"A", "B">>, <<"C", "D", "E">> >>

(* The lines joined in order, the marker put back after each line that the  *)
(* loop split off                                                           *)
RECURSIVE Rejoined(_, _)
Rejoined(ls, m) ==
    IF ls = <<>> THEN <<>>
    ELSE Head(ls).text \o (IF Head(ls).split THEN m ELSE <<>>) \o Rejoined(Tail(ls), m)
RECURSIVE Joined(_)
Joined(ls) == IF ls = <<>> THEN <<>> ELSE Head(ls).text \o Joined(Tail(ls))

C17_EmptyMarkerRejected ==
    lpc \in {"readline", "readlines"} => Len(eol_) > 0

(* C18: on a loopback pair, when send returned the length of B and the      *)
(* read of that many bytes on the other end returned that length, the bytes *)
(* read are exactly B in order.                                             *)
C18_RoundTrip ==
    (wpc = "sent" /\ sent = Len(tx) /\ rpc = "done" /\ got = Len(tx)) => rx = tx

(* The threads that are executing the body of a method of a family *)
InBody(family) == {t \in Threads : threads[t].at = "body" /\ threads[t].op \in family}

(* C19: in every state at most one thread is executing the body of a        *)
(* read-family method (read, readline, readlines, waitRead) and at most one *)
(* the body of a send-family method (send, waitSend).                       *)
C19_OneReadOneSend ==
    Cardinality(InBody(ReadFamily)) <= 1 /\ Cardinality(InBody(SendFamily)) <= 1

(* C19 witness: one thread is inside a read while two others wait to enter  *)
(* a read-family method.                                                    *)
C19_Witness ==
    /\ InBody({"read"}) # {}
    /\ Cardinality({t \in Threads : threads[t].at = "locking"
                                     /\ threads[t].op \in ReadFamily}) >= 2

(* C20: a read-family method holds mtx_read and never mtx_send, a           *)
(* send-family method holds mtx_send and never mtx_read, so a thread that   *)
(* waits to enter one family never waits for a thread of the other; and a   *)
(* send may be in its body while a read is in its own.                      *)
C20_IndependentLocks ==
    \A t \in Threads :
        /\ threads[t].op \in ReadFamily => mtx_send # t
        /\ threads[t].op \in SendFamily => mtx_read # t
        /\ (threads[t].op \in ReadFamily /\ threads[t].at = "body") => mtx_read = t
        /\ (threads[t].op \in SendFamily /\ threads[t].at = "body") => mtx_send = t
        /\ (threads[t].op \in SendFamily /\ threads[t].at = "locking" /\ mtx_send # 0)
               => threads[mtx_send].op \notin ReadFamily
        /\ (threads[t].op \in ReadFamily /\ threads[t].at = "locking" /\ mtx_read # 0)
               => threads[mtx_read].op \notin SendFamily

(* C20 witness: a read and a send are in their bodies at the same time.     *)
C20_Witness == InBody({"read"}) # {} /\ InBody({"send"}) # {}

(* C21: the bytes a running read, readline or readlines has consumed are    *)
(* one contiguous run of the incoming stream: no byte that another call     *)
(* consumed, running or returned, lies between two of them.  (A byte has    *)
(* one consumer: the OS hands each byte of the stream to one ::read.)       *)
C21_ContiguousReads ==
    \A i, j, k \in 1..Len(taken) :
        (i < j /\ j < k /\ taken[i] # 0 /\ taken[i] = taken[k]) => taken[j] = taken[i]

(* C21 witness: a call has consumed two bytes in a row, after a byte of a   *)
(* call that returned during it could not be (none did), while another      *)
(* thread waits to enter a reading method.                                  *)
C21_Witness ==
    /\ Len(taken) >= 2 /\ taken[1] # 0 /\ taken[2] = taken[1]
    /\ \E u \in Threads : /\ u # taken[1] /\ threads[u].at = "locking"
                          /\ threads[u].op \in {"read", "readline", "readlines"}

(* The thread has stored to a field of the channel in its running call *)
ChangedState(t) ==
    /\ threads[t].at # "out"
    /\ \/ early_write(threads[t].op) # "none"
       \/ \E i \in 1..threads[t].step : writes(body(threads[t].op)[i]) # "none"

(* C22: from the first store of a structural operation to its return, no    *)
(* read-family and no send-family operation is in its body.                 *)
C22_StructuralAlone ==
    \A t \in Threads :
        (threads[t].op \in Structural /\ ChangedState(t))
            => InBody(ReadFamily \cup SendFamily) = {}

(* The thread waits for a mutex, and the mutex it waits for *)
Waiting(t) == threads[t].at = "locking" /\ threads[t].guards < Len(lock_guards(threads[t].op))
Wanted(t)  == lock_guards(threads[t].op)[threads[t].guards + 1]

(* The thread can take a step: it is in a body, or the mutex it wants is    *)
(* free                                                                     *)
CanMove(t) == threads[t].at = "body" \/ (Waiting(t) /\ holder(Wanted(t)) = 0)

(* C23: a thread that holds mtx_send never waits for mtx_read, no thread    *)
(* waits for a mutex it holds, a thread outside every method holds no       *)
(* mutex, and there is no deadlock: every waiting thread waits for a thread *)
(* that can move, or for one that waits for a thread that can move.         *)
C23_NoDeadlock ==
    \A t \in Threads :
        /\ threads[t].at = "out" => held(t) = {}
        /\ Waiting(t) =>
              /\ holder(Wanted(t)) # t
              /\ ~(Wanted(t) = "mtx_read" /\ mtx_send = t)
              /\ \/ CanMove(t)
                 \/ CanMove(holder(Wanted(t)))
                 \/ /\ Waiting(holder(Wanted(t)))
                    /\ holder(Wanted(holder(Wanted(t)))) # 0
                    /\ CanMove(holder(Wanted(holder(Wanted(t)))))

(* C23 witness: one thread holds mtx_read and waits for mtx_send while a    *)
(* send is in its body and a third thread waits for mtx_read.               *)
C23_Witness ==
    \E t, u, v \in Threads :
        /\ Waiting(t) /\ mtx_read = t /\ Wanted(t) = "mtx_send"
        /\ mtx_send = u /\ threads[u].at = "body" /\ threads[u].op = "send"
        /\ Waiting(v) /\ Wanted(v) = "mtx_read"

(* The mutexes under which the methods that own a field store to it: eol_   *)
(* and eol_len_ under mtx_read (comm.cc:259), every other field under both  *)
guarded_by(field) ==
    IF field \in {"eol_", "eol_len_"} THEN {"mtx_read"} ELSE {"mtx_read", "mtx_send"}

(* C24: every store to a field of the channel is made by a thread that      *)
(* holds the mutexes that guard the field.                                  *)
C24_WritesUnderLock ==
    last_write.field # "none" => guarded_by(last_write.field) \subseteq last_write.held

(* The time given is negative, is 2^32 seconds or more, is a whole number   *)
(* of microseconds                                                          *)
Negative   == given.sec.hi < 0
TooLarge   == given.sec.hi >= 65536
WholeUsec  == given.frac % 10 = 0

(* C25: to_timeval fails for every negative time and every time of 2^32     *)
(* seconds or more; for every other time given in whole microseconds it     *)
(* returns microseconds in 0..999999 and seconds in 0..2^32-1 that add up   *)
(* to the time given; 1.5 gives 1 second and 500000 microseconds.           *)
C25_ToTimeval ==
    time # NoTime =>
        /\ (Negative \/ TooLarge) => ~time.ok
        /\ (~Negative /\ ~TooLarge /\ WholeUsec) =>
               /\ time.ok
               /\ 0 <= time.tv_usec /\ time.tv_usec <= 999999
               /\ time.tv_sec.hi \in 0..65535 /\ time.tv_sec.lo \in 0..65535
               /\ time.tv_sec = given.sec /\ time.tv_usec * 10 = given.frac
        /\ (given = [sec |-> [hi |-> 0, lo |-> 1], frac |-> 5000000]) =>
               (time.tv_sec = [hi |-> 0, lo |-> 1] /\ time.tv_usec = 500000)

(* C25 witness: 2^32 - 1 seconds and 999999 microseconds were converted.    *)
C25_Witness ==
    /\ time # NoTime /\ time.ok /\ given.sec = [hi |-> 65535, lo |-> 65535]
    /\ given.frac = 9999990 /\ time.tv_usec = 999999

(* The transfer is over, and what the last low-level call of it returned    *)
TransferOver == pc \in {"done", "sent"}
LastNow == IF pc \in {"done", "loop", "wait", "read"} THEN bytes_read_now ELSE bytes_sent_now

(* C26: a read or send during which an OS call failed with an error other   *)
(* than an interruption (here: EIO from the transfer, EBADF from select)    *)
(* ends in an exception; a failed first read is not taken for zero bytes.   *)
C26_OsFailuresSurface ==
    (TransferOver /\ errno_ \in {"EIO", "EBADF"}) => raised # "none"

(* The step is a low-level transfer inside the loop that returned, or a     *)
(* readiness wait, and the value the transfer returned                      *)
TransferStep == pc \in {"read", "write"} /\ pc' # "blocked" /\ clock' = clock
WaitStep     == pc \in {"wait", "swait"} /\ clock' = clock
NowAfter     == IF pc = "read" THEN bytes_read_now' ELSE bytes_sent_now'
Untouched    == bytes_read' = bytes_read /\ bytes_sent' = bytes_sent /\ raised' = "none"

(* C27: a low-level read or write that is interrupted, and a readiness wait *)
(* that is interrupted, leave the running total as it was, raise nothing    *)
(* and lead back to the loop test, which checks the deadline and retries;   *)
(* an interrupted first attempt counts as nothing; and no exception that    *)
(* leaves a transfer follows an interrupted call.                           *)
C27_EintrRetried ==
    /\ [][/\ (TransferStep /\ NowAfter = -1 /\ errno_' = "EINTR")
                 => (pc' \in {"loop", "sloop"} /\ Untouched)
          /\ (WaitStep /\ errno_ # "EINTR" /\ errno_' = "EINTR")
                 => (pc' \in {"loop", "sloop"} /\ Untouched)
          /\ (pc = Idle /\ pc' \in {"loop", "sloop"} /\ errno_' = "EINTR")
                 => (bytes_read' = 0 /\ bytes_sent' = 0 /\ raised' = "none")]_vars
    /\ []((TransferOver /\ raised # "none") => ~(LastNow = -1 /\ errno_ = "EINTR"))

(* C27 witness: a Serial send wrote all its bytes although a call was       *)
(* interrupted on the way.                                                  *)
C27_Witness ==
    /\ pc = "sent" /\ kind = "serial" /\ raised = "none" /\ errno_ = "EINTR"
    /\ size > 1 /\ ret = size

(* C28: a low-level read or write inside the loop, after a wait that        *)
(* reported ready, that returns zero or a negative value without being      *)
(* interrupted ends the operation with InterfaceException.                  *)
C28_NothingAfterReadyRaises ==
    [][(TransferStep /\ NowAfter < 1 /\ ~(NowAfter = -1 /\ errno_' = "EINTR"))
           => (pc' \in {"done", "sent"} /\ raised' = "InterfaceException")]_vars

(* C29: while a transfer runs, expired() is true exactly when the monotonic *)
(* clock is past start + base + per_byte x size x 2.                        *)
C29_ExpiredIffPastDeadline ==
    pc \in {"loop", "wait", "read", "sloop", "swait", "write"}
        => (expired(timecheck) <=> DeadlineUsec < NowUsec)

(* C30: a transfer reaches its loop test, and so its first deadline check   *)
(* and its first readiness wait, only after a low-level read or write       *)
(* attempt; and every transfer on a connected channel, also one whose       *)
(* budgets are all zero, has made an attempt when it returns.               *)
C30_AttemptFirst ==
    /\ pc \in {"loop", "sloop"} => attempted
    /\ (TransferOver /\ raised # "ConnectionException") => attempted

(* The caller is inside a transfer; the transfer has transferred the size   *)
(* it was asked for                                                         *)
Running     == pc \notin {Idle, "done", "sent"}
SizeReached == \/ (pc = "loop" /\ ~(bytes_read < size))
               \/ (pc = "sloop" /\ ~size_t_less(bytes_sent, size))

(* C31: every read and send that has started returns a count or raises,     *)
(* while the clock advances and every wait returns; and the loop test that  *)
(* finds the size reached returns at once.                                  *)
C31_TransferTerminates ==
    /\ Running ~> TransferOver
    /\ [][(SizeReached /\ pc' # pc) => (TransferOver' /\ raised' = "none")]_vars

(* The time of one byte at the current baud rate and settings, as           *)
(* Serial::setOptions_ stores it (part_001:134)                             *)
ByteTime == tv(get_bytetime(baudrate_, settings_))

(* C32: on a serial channel on which a transfer can run (open and           *)
(* connected), after any sequence of operations, timeout_.byte is the time  *)
(* of one byte at the current baud rate and the current settings.           *)
C32_ByteTimeCurrent ==
    (phase = "live" /\ kind = "serial" /\ connected(Chan)) => timeout_.byte = ByteTime

(* The first k bytes of the stream end with the marker *)
MarkerAt(k) == k >= Len(eol_) /\ SubSeq(stream, k - Len(eol_) + 1, k) = eol_

(* C33: readline has at no time consumed more than size bytes, nor a byte   *)
(* after a position at which the bytes consumed in this call ended with the *)
(* marker; and when a single-byte read_ returns 0 it returns the bytes      *)
(* consumed so far, without an error.                                       *)
C33_ReadLineStops ==
    lpc \in {"readline", "line_done"} =>
        /\ read_so_far <= line_size /\ read_so_far <= Len(stream)
        /\ \A k \in 1..(read_so_far - 1) : ~MarkerAt(k)
        /\ lpc = "readline" => ~(read_so_far >= 1 /\ MarkerAt(read_so_far))
        /\ (lpc = "line_done" /\ line_end = "timeout")
               => (line_raised = "none" /\ line = Consumed)

(* C33 witness: readline stopped on a two-byte marker before its size was   *)
(* reached, with a byte of the stream left unconsumed.                      *)
C33_Witness ==
    /\ lpc = "line_done" /\ line_end = "eol" /\ Len(eol_) = 2
    /\ read_so_far < line_size /\ read_so_far < Len(stream)

(* The calls of open_ and connect_ that the operation made, in order; when  *)
(* the operation threw, the last of them is the one that failed             *)
ConnectCalls ==
    SelectSeq(log, LAMBDA e : e \in {"::open", "inet_pton", "::fcntl", "::connect",
                                      "::select", "::setsockopt", "::getsockopt"})
FailedCall == IF err = "none" \/ ConnectCalls = <<>> THEN "none"
              ELSE ConnectCalls[Len(ConnectCalls)]

(* C34: an Ethernet open() in which ::connect is refused, or select on the  *)
(* connecting socket does not report it writable within timeout_.conn, or   *)
(* the socket's pending error (SO_ERROR) is set or cannot be read, throws   *)
(* InterfaceException and leaves is_connected_ false; is_connected_ is made *)
(* true only by an open() that threw nothing, after ::connect, after the    *)
(* select if there was one, and after the SO_ERROR read.                    *)
C34_ConnectFailure ==
    (phase # "none" /\ kind = "ether") =>
        /\ (op \in {"open", "construct"}
            /\ FailedCall \in {"::connect", "::select", "::getsockopt"})
               => (err = "InterfaceException" /\ ~is_connected_)
        /\ Has("is_connected_")
               => /\ op \in {"open", "construct"} /\ err = "none" /\ is_connected_
                  /\ Before("::connect", "is_connected_")
                  /\ Before("::getsockopt", "is_connected_")
                  /\ Has("::select") => Before("::select", "is_connected_")
        /\ (is_connected_ /\ ~pre.is_connected_ /\ op # "none") => Has("is_connected_")

(* C34 witness: an Ethernet open() on a closed channel waited for the       *)
(* connection with select, which did not report the socket writable.        *)
C34_Witness ==
    /\ kind = "ether" /\ op = "open" /\ WasClosed /\ FailedCall = "::select"
    /\ err = "InterfaceException" /\ is_open_ /\ ~is_connected_

(* C35: a read, readline, readlines or send that throws InterfaceException  *)
(* was made on an open and connected channel and leaves it open and         *)
(* connected on the same handle, which it has not closed; and no such       *)
(* operation, whatever its outcome, closes the channel: closing is left to  *)
(* close().                                                                 *)
C35_FailedTransferKeepsChannel ==
    ReadOrSend =>
        /\ err = "InterfaceException"
               => /\ WasConnected /\ is_open_ /\ is_connected_
                  /\ fd_ = pre.fd_ /\ ~Has("::close") /\ ~Has("close_")
        /\ (is_open_ = pre.is_open_ /\ is_connected_ = pre.is_connected_ /\ fd_ = pre.fd_)

(* C35 witness: a send on a connected Ethernet channel threw                *)
(* InterfaceException.                                                      *)
C35_Witness ==
    /\ op = "send" /\ kind = "ether" /\ err = "InterfaceException"
    /\ is_open_ /\ is_connected_ /\ fd_ \in os_fds

(* C36: no step of a read or of a send, its readiness waits included,       *)
(* changes timeout_: the budgets, timeout_.conn among them, are after the   *)
(* step what they were before it, also when select rewrites the timeout it  *)
(* was given.                                                               *)
C36_BudgetUntouched == [][timeout_' = timeout_]_vars

(* What the getters return (comm.cc:233, 244, 255, 279, 295) *)
Getters == <<address_, port_, baudrate_, timeout_, settings_>>
Setters == {"setAddress", "setPort", "setBaudrate", "setTimeout", "setSettings"}

(* C37: a setter that throws leaves address_, port_, baudrate_, timeout_    *)
(* and settings_ as they were when it was called.                           *)
C37_FailedSetterKeepsConfig ==
    [][(op' \in Setters /\ err' # "none") => Getters' = Getters]_vars

(* C38: the OS holds at most one descriptor open for the channel; it holds  *)
(* one, the one in fd_, when is_open_ is true and none when is_open_ is     *)
(* false (so that open_, which acquires only when is_open_ is false, never  *)
(* acquires a second one or overwrites one that is open); and none is left  *)
(* after the destructor, or after a constructor that threw.                 *)
C38_OneHandle ==
    /\ Cardinality(os_fds) <= 1
    /\ phase = "live" => /\ is_open_ => os_fds = {fd_}
                         /\ ~is_open_ => os_fds = {}
    /\ phase \in {"dead", "gone", "terminated"} => os_fds = {}

(* C39: for every stream, every marker (the empty one included) and every   *)
(* size, the lines that readlines returns, joined in order with nothing     *)
(* between them, are the bytes the call consumed, each once and in order;   *)
(* none of the lines is empty and together they are at most size bytes;     *)
(* while the loop runs, the lines split off so far are the bytes consumed   *)
(* up to the start of the current line.                                     *)
C39_LinesAreConsumed ==
    /\ lpc = "readlines"
           => /\ Joined(lines) = SubSeq(stream, 1, start_of_line)
              /\ start_of_line <= read_so_far /\ read_so_far <= line_size
    /\ (lpc = "lines_done" /\ line_raised = "none")
           => /\ Joined(lines) = Consumed
              /\ Len(Joined(lines)) = read_so_far /\ read_so_far <= line_size
              /\ \A i \in 1..Len(lines) : Len(lines[i].text) > 0

(* C39 witness: readlines came back on a timeout, before its size was       *)
(* reached, with lines split off and a rest after them.                     *)
C39_Witness ==
    /\ lpc = "lines_done" /\ line_raised = "none" /\ line_end = "timeout"
    /\ read_so_far < line_size /\ Len(lines) >= 2
    /\ start_of_line < read_so_far /\ start_of_line > 0


(* The length the object keeps is the length of the marker it keeps *)
EolLenCurrent == eol_len_ = Len(eol_)

(* C40: in every state in which a read-family operation can run, with       *)
(* mtx_read free or held by a read-family call, eol_len_ equals the length  *)
(* of eol_: the constructor and setEOL set both, and no readline or         *)
(* readlines sees a new eol_ with an old eol_len_.                          *)
C40_EolLenMatches ==
    /\ mtx_read = 0 => EolLenCurrent
    /\ \A t \in Threads :
          (threads[t].op \in ReadFamily /\ threads[t].at = "body") => EolLenCurrent
    /\ \A t \in Threads :
          (threads[t].op = "setEOL" /\ threads[t].at = "body" /\ threads[t].step = 2)
              => (eol_ = threads[t].eol /\ EolLenCurrent)

(* C40 witness: setEOL has stored a longer marker and not yet its length,   *)
(* while a readline waits for mtx_read.                                     *)
C40_Witness ==
    \E t, u \in Threads :
        /\ threads[t].op = "setEOL" /\ threads[t].at = "body" /\ threads[t].step = 1
        /\ eol_ = <<"\r", "\n">> /\ eol_len_ = 1
        /\ threads[u].op \in {"readline", "readlines"} /\ Waiting(u)
        /\ Wanted(u) = "mtx_read"

============================================================================
